---- MODULE Spec2Model ----
(***************************************************************************)
(* Connection lifecycle and publish/subscribe facade of DpsnClient         *)
(* (src/src/index.ts).                                                     *)
(*                                                                         *)
(* The client runs on a single-threaded event loop.  Every action below is *)
(* one run-to-completion step: a public call up to its first suspension,   *)
(* a timer callback, or one transport event together with every handler    *)
(* the client registered for it and the promise continuations (microtasks) *)
(* those handlers release.                                                 *)
(*                                                                         *)
(* The MQTT transport is an external collaborator.  A handle returned by   *)
(* mqtt.connect may emit 'connect', 'error', 'close', 'offline' and        *)
(* 'disconnect' at any time while it is not ended; it answers end() with   *)
(* a completion callback and a 'close' event, in either order.             *)
(* An 'error' listener is assumed to be registered on the client, as the   *)
(* README instructs, so emit('error') returns normally.                    *)
(***************************************************************************)
EXTENDS Integers, Naturals, Sequences, FiniteSets, TLC

\* ---------------------------------------------------------------- bounds
MaxInits == 2        \* init() invocations, explicit or lazy
MaxCalls == 2        \* publish/subscribe invocations
MaxDiscs == 1        \* disconnect() invocations
MaxHandles == 4      \* mqtt.connect invocations
MaxReconnects == 1   \* connections a handle establishes with no attempt pending on it
MaxMessages == 1     \* inbound messages delivered by the transport
MaxChainOps == 2     \* getTopicPrice/fetchOwnedTopics/purchaseTopic invocations
MaxWaits == 1        \* waitForTransactionConfirmation invocations
MaxTime == 130000    \* milliseconds the clock may reach

\* ------------------------------------------------------- program constants
DefaultMaxRetries == 3
DefaultInitialDelay == 1000
DefaultMaxDelay == 10000

\* retryOptions after the ?? defaults of connectWithRetry have been applied
DefaultRetryOptions ==
  [maxRetries |-> DefaultMaxRetries, initialDelay |-> DefaultInitialDelay,
   maxDelay |-> DefaultMaxDelay, exponentialBackoff |-> TRUE]

\* init({retryOptions: {maxRetries: 0}})
NoRetryOptions ==
  [maxRetries |-> 0, initialDelay |-> DefaultInitialDelay,
   maxDelay |-> DefaultMaxDelay, exponentialBackoff |-> TRUE]

\* init({retryOptions: {maxRetries: 1}})
OneRetryOptions ==
  [maxRetries |-> 1, initialDelay |-> DefaultInitialDelay,
   maxDelay |-> DefaultMaxDelay, exponentialBackoff |-> TRUE]

\* option bundles an explicit init(options) call may pass
RetryOptionChoices ==
  { DefaultRetryOptions,
    NoRetryOptions,
    [maxRetries |-> 2, initialDelay |-> 6000, maxDelay |-> 10000, exponentialBackoff |-> TRUE],
    [maxRetries |-> 2, initialDelay |-> 500, maxDelay |-> 10000, exponentialBackoff |-> FALSE] }

\* ------------------------------------------------------------ input values
\* strings the program inspects are sequences of characters
TopicA == <<"A">>
TopicB == <<"B">>
SubTopics == {TopicA, TopicB}
Callbacks == {"CA", "CB"}

\* JavaScript values passed to publish() or produced by the message handler
ObjK1 == [type |-> "object", v |-> "k:1"]
StrHello == [type |-> "string", v |-> "hello"]
Undefined == [type |-> "undefined", v |-> ""]
Messages == {ObjK1, StrHello}

\* payload texts the broker may deliver
Bodies == {"{\"k\":1}", "\"hello\"", "hello"}

\* topics passed to publish(): "0xab/s", "0x0cd", "zz/s"
Topic0xab == <<"0", "x", "a", "b", "/", "s">>
Topic0x0cd == <<"0", "x", "0", "c", "d">>
TopicZz == <<"z", "z", "/", "s">>
PubTopics == {Topic0xab, Topic0x0cd, TopicZz}

HexDigits == {"0", "1", "2", "3", "4", "5", "6", "7", "8", "9",
              "a", "b", "c", "d", "e", "f", "A", "B", "C", "D", "E", "F"}

\* packet.messageId handed to the publish callback (0: none, QoS 0)
MessageIds == {0, 5}
\* granted[0].qos handed to the subscribe callback
GrantedQoS == {0, 1}

\* the key of the wallet made by the constructor, and some other key
WalletKey == "walletKey"
OtherKey == "otherKey"

VARIABLES
  dpsnBroker,    \* this.dpsnBroker: 0 = undefined, else the id of a handle
  connected,     \* this.connected
  initializing,  \* this.initializing: 0 = null, else the id of an init() promise
  inits,         \* the init() invocations, in call order; the index is the promise id
  handles,       \* the handles mqtt.connect has returned, in creation order
  callers,       \* the publish/subscribe invocations, in call order
  discs,         \* the disconnect() invocations that passed the handle check
  evConnect,     \* number of 'connect' events emitted by the client
  evDisconnect,  \* number of 'disconnect_success' events emitted by the client
  nReconnects,   \* number of connections established with no attempt pending
  topicCallbacks,\* this.topicCallbacks: topic -> callback, "none" = no entry
  ops,           \* the publish/subscribe/unsubscribe invocations, in call order
  inbox,         \* the inbound messages dispatched so far, with the callbacks run
  provider,      \* this.provider is set
  contract,      \* this.contract is set
  now,           \* Date.now(), in milliseconds since the client was constructed
  chainOps,      \* the getTopicPrice/fetchOwnedTopics/purchaseTopic invocations, in call order
  waits          \* the waitForTransactionConfirmation invocations, in call order

\* the state of the publish/subscribe facade
psVars == <<topicCallbacks, ops, inbox>>

\* the state of the blockchain side of the client
chainVars == <<provider, contract, now, chainOps, waits>>

\* the state of the connection lifecycle
lifeVars == <<dpsnBroker, connected, initializing, inits, handles, callers, discs,
              evConnect, evDisconnect, nReconnects>>

vars == <<dpsnBroker, connected, initializing, inits, handles, callers, discs,
          evConnect, evDisconnect, nReconnects, topicCallbacks, ops, inbox,
          provider, contract, now, chainOps, waits>>

\* ------------------------------------------------------------- helpers
Min(a, b) == IF a < b THEN a ELSE b

RECURSIVE Pow2(_)
Pow2(n) == IF n = 0 THEN 1 ELSE 2 * Pow2(n - 1)

Init ==
  /\ dpsnBroker = 0
  /\ connected = FALSE
  /\ initializing = 0
  /\ inits = << >>
  /\ handles = << >>
  /\ callers = << >>
  /\ discs = << >>
  /\ evConnect = 0
  /\ evDisconnect = 0
  /\ nReconnects = 0
  /\ topicCallbacks = [t \in SubTopics |-> "none"]
  /\ ops = << >>
  /\ inbox = << >>
  /\ provider = FALSE
  /\ contract = FALSE
  /\ now = 0
  /\ chainOps = << >>
  /\ waits = << >>

\* ------------------------------------------------- connectWithRetry pieces
\* variant: the retry test written with <= instead of <
ShouldRetry_OffByOne(o, retryCount) == retryCount <= o.maxRetries

\* catch of attemptConnect: is another attempt made after a failed one?
ShouldRetry(o, retryCount) == retryCount < o.maxRetries

\* variant: the exponent counts the attempt about to be made
BackoffDelay_ExpOffByOne(o, retryCount) ==
  IF o.exponentialBackoff
    THEN Min(o.initialDelay * Pow2(retryCount + 1), o.maxDelay)
    ELSE o.initialDelay

\* variant: the exponential delay is not capped by maxDelay
BackoffDelay_NoCap(o, retryCount) ==
  IF o.exponentialBackoff
    THEN o.initialDelay * Pow2(retryCount)
    ELSE o.initialDelay

\* the delay slept before attemptConnect(retryCount + 1)
BackoffDelay(o, retryCount) ==
  IF o.exponentialBackoff
    THEN Min(o.initialDelay * Pow2(retryCount), o.maxDelay)
    ELSE o.initialDelay

\* the promise of the attempt made on handle h is unsettled; exactly then its
\* connectionTimeout timer is armed
AttemptPending(h) == handles[h].attempt = "pending"

\* the attempt promise rejects: attemptConnect's catch either schedules the
\* next attempt or rethrows, and then init's catch rejects init's promise
\* with a CONNECTION_ERROR
AfterReject(r) ==
  IF ShouldRetry(r.opts, r.retryCount)
    THEN [r EXCEPT !.pc = "backoff",
                   !.waits = Append(@, BackoffDelay(r.opts, r.retryCount))]
    ELSE [r EXCEPT !.pc = "failed", !.code = "CONNECTION_ERROR"]

\* inits after the attempt on handle h was rejected (no-op once settled)
RejectAttempt(h) ==
  IF AttemptPending(h)
    THEN [inits EXCEPT ![handles[h].owner] = AfterReject(@)]
    ELSE inits

NewHandle(i) == [owner |-> i, st |-> "open", attempt |-> "pending", reg |-> 0]

NewInit(origin, o) ==
  [origin |-> origin, opts |-> o, pc |-> "signing", retryCount |-> 0,
   value |-> 0, waits |-> << >>, code |-> "none"]

\* ------------------------------------------------- publish/subscribe pieces
\* new DPSNError({code, ...}) and new Error(text)
DpsnError(code) == [class |-> "DPSNError", code |-> code, text |-> ""]
PlainError(text) == [class |-> "Error", code |-> "none", text |-> text]

\* an event the client emits: the channel name of emit() and its payload
Event(name, topic, num, code) == [name |-> name, topic |-> topic, num |-> num, code |-> code]

\* the channel the override of on() attaches a listener of a DPSN event to
OnChannel(event) ==
  CASE event = "subscription" -> "subscribe"
    [] event = "publish" -> "publish_success"
    [] event = "disconnect" -> "disconnect_success"
    [] OTHER -> event

\* JSON.stringify(message)
Stringify(m) ==
  CASE m = ObjK1 -> "{\"k\":1}"
    [] m = StrHello -> "\"hello\""
    [] OTHER -> "null"

\* JSON.parse(payload.toString()) with the catch of the message handler:
\* the parsed value, or the text itself when it is not JSON
ParsePayload(body) ==
  CASE body = "{\"k\":1}" -> ObjK1
    [] body = "\"hello\"" -> StrHello
    [] OTHER -> [type |-> "string", v |-> body]

\* index of the first "/" in topic, or Len(topic) + 1 when there is none
RECURSIVE FirstSlash(_, _)
FirstSlash(topic, k) ==
  IF k > Len(topic) \/ topic[k] = "/" THEN k ELSE FirstSlash(topic, k + 1)

\* topic.split('/')[0]
ParentTopic(topic) == SubSeq(topic, 1, FirstSlash(topic, 1) - 1)

\* /^0x[0-9a-fA-F]+$/.test(parentTopic)
IsHexRoot(r) ==
  /\ Len(r) >= 3
  /\ r[1] = "0" /\ r[2] = "x"
  /\ \A k \in 3..Len(r) : r[k] \in HexDigits

RECURSIVE StripZeros(_)
StripZeros(d) == IF d # << >> /\ Head(d) = "0" THEN StripZeros(Tail(d)) ELSE d

RECURSIVE Pairs(_)
Pairs(d) == IF d = << >> THEN << >> ELSE << <<d[1], d[2]>> >> \o Pairs(Tail(Tail(d)))

\* ethers.toBeArray(parentTopic): the big-endian bytes of the number the hex
\* string denotes (no leading zero byte; empty for zero), a byte being a
\* pair of hex digits
ToBeArray(r) ==
  LET d == StripZeros(SubSeq(r, 3, Len(r)))
  IN Pairs(IF Len(d) % 2 = 1 THEN <<"0">> \o d ELSE d)

\* wallet.signMessage(bytes) made with key
Sign(key, bytes) == [signer |-> key, over |-> bytes]

\* a publish/subscribe/unsubscribe invocation; promise and value are what
\* ensureInitialized handed it, sent and ack what it handed to the transport
\* and what the transport answered, flag what this.connected was when the
\* request went to the transport
NewOp(op, topic, cb, msg, promise, value) ==
  [op |-> op, topic |-> topic, cb |-> cb, msg |-> msg,
   promise |-> promise, value |-> value,
   pc |-> "init", handle |-> 0, sent |-> << >>, ack |-> << >>, err |-> << >>,
   events |-> << >>, flag |-> << >>]

\* what the transport handed to the callback of a request
Answer(res, num) == [res |-> res, num |-> num]

Reject(o, e) == [o EXCEPT !.pc = "rejected", !.err = <<e>>]

\* how `await this.ensureInitialized()` of invocation o turns out when the
\* initializations are I
Awaited(o, I) ==
  CASE o.promise = 0 -> "resolved"
    [] I[o.promise].pc = "done" -> "resolved"
    [] I[o.promise].pc = "failed" -> "rejected"
    [] OTHER -> "pending"

\* variant: the request is sent whenever a handle exists
SubscribeChecks_NoConnectedCheck(o, conn, brk) ==
  IF brk = 0 THEN Reject(o, DpsnError("CLIENT_NOT_INITIALIZED"))
  ELSE [o EXCEPT !.pc = "sent", !.handle = brk, !.flag = <<conn>>]

\* subscribe() from the end of its first try block up to the transport
\* request
SubscribeChecks(o, conn, brk) ==
  IF brk = 0 THEN Reject(o, DpsnError("CLIENT_NOT_INITIALIZED"))
  ELSE IF ~conn THEN Reject(o, DpsnError("CLIENT_NOT_CONNECTED"))
  ELSE [o EXCEPT !.pc = "sent", !.handle = brk, !.flag = <<conn>>]

\* variant: the topic root is not validated
PublishChecks_NoFormatCheck(o, brk) ==
  IF brk = 0 THEN Reject(o, PlainError("NotInitialized"))
  ELSE [o EXCEPT !.pc = "signing"]

\* publish() from the handle check up to the await of wallet.signMessage
PublishChecks(o, brk) ==
  IF brk = 0 THEN Reject(o, PlainError("NotInitialized"))
  ELSE IF ~IsHexRoot(ParentTopic(o.topic)) THEN Reject(o, PlainError("InvalidTopicFormat"))
  ELSE [o EXCEPT !.pc = "signing"]

\* the continuation of `await this.ensureInitialized()` in invocation o; it
\* runs in the step in which the awaited promise settles
ResumeOp(o, I, conn, brk) ==
  IF o.pc # "init" THEN o
  ELSE CASE Awaited(o, I) = "pending" -> o
         [] Awaited(o, I) = "rejected" ->
              IF o.op = "subscribe"
                THEN Reject(o, DpsnError("INITIALIZATION_FAILED"))
                ELSE Reject(o, DpsnError(I[o.promise].code))
         [] OTHER ->
              IF o.op = "subscribe"
                THEN SubscribeChecks(o, conn, brk)
                ELSE PublishChecks(o, brk)

Resume(q, I, conn, brk) == [c \in 1..Len(q) |-> ResumeOp(q[c], I, conn, brk)]

\* the waiting invocations go on once this step has settled their promise
Continue ==
  /\ ops' = Resume(ops, inits', connected', dpsnBroker')
  /\ UNCHANGED <<topicCallbacks, inbox>>
  /\ UNCHANGED chainVars

\* ------------------------------------------------------------ public calls
\* init(options) called directly by the application; runs up to the await
\* of wallet.signMessage
CallInit(o) ==
  /\ Len(inits) < MaxInits
  /\ inits' = Append(inits, NewInit("explicit", o))
  /\ UNCHANGED <<dpsnBroker, connected, initializing, handles, callers, discs,
                 evConnect, evDisconnect, nReconnects>>
  /\ UNCHANGED psVars
  /\ UNCHANGED chainVars

\* variant: the pending initialization is not memoized
EnsureInitialized_NoMemo ==
  /\ Len(callers) < MaxCalls
  /\ IF dpsnBroker # 0 /\ connected
       THEN /\ callers' = Append(callers, [promise |-> 0, value |-> dpsnBroker])
            /\ UNCHANGED <<initializing, inits>>
       ELSE /\ Len(inits) < MaxInits
            /\ inits' = Append(inits, NewInit("lazy", DefaultRetryOptions))
            /\ initializing' = Len(inits) + 1
            /\ callers' = Append(callers, [promise |-> Len(inits) + 1, value |-> 0])
  /\ UNCHANGED <<dpsnBroker, connected, handles, discs,
                 evConnect, evDisconnect, nReconnects>>

\* ensureInitialized() as called by publish() and subscribe(); the caller is
\* recorded with the promise it is handed (0: the existing handle, returned
\* without waiting)
\* variant: the connected client is not returned at once
EnsureInitialized_NoFastPath ==
  /\ Len(callers) < MaxCalls
  /\ IF initializing = 0
       THEN /\ Len(inits) < MaxInits
            /\ inits' = Append(inits, NewInit("lazy", DefaultRetryOptions))
            /\ initializing' = Len(inits) + 1
            /\ callers' = Append(callers, [promise |-> Len(inits) + 1, value |-> 0])
       ELSE /\ callers' = Append(callers, [promise |-> initializing, value |-> 0])
            /\ UNCHANGED <<initializing, inits>>
  /\ UNCHANGED <<dpsnBroker, connected, handles, discs,
                 evConnect, evDisconnect, nReconnects>>

EnsureInitialized ==
  /\ Len(callers) < MaxCalls
  /\ IF dpsnBroker # 0 /\ connected
       THEN /\ callers' = Append(callers, [promise |-> 0, value |-> dpsnBroker])
            /\ UNCHANGED <<initializing, inits>>
       ELSE IF initializing = 0
         THEN /\ Len(inits) < MaxInits
              /\ inits' = Append(inits, NewInit("lazy", DefaultRetryOptions))
              /\ initializing' = Len(inits) + 1
              /\ callers' = Append(callers, [promise |-> Len(inits) + 1, value |-> 0])
         ELSE /\ callers' = Append(callers, [promise |-> initializing, value |-> 0])
              /\ UNCHANGED <<initializing, inits>>
  /\ UNCHANGED <<dpsnBroker, connected, handles, discs,
                 evConnect, evDisconnect, nReconnects>>

\* what `await this.ensureInitialized()` yields to caller c; the
\* continuations of an await run as soon as the awaited promise settles
Outcome(c) ==
  IF callers[c].promise = 0
    THEN [st |-> "resolved", value |-> callers[c].value]
    ELSE LET p == inits[callers[c].promise]
         IN CASE p.pc = "done" -> [st |-> "resolved", value |-> p.value]
              [] p.pc = "failed" -> [st |-> "rejected", value |-> 0]
              [] OTHER -> [st |-> "pending", value |-> 0]

\* transport state of a handle after end() was requested on it
EndRequested(st) == IF st = "ended" THEN "ended" ELSE "ending"

\* variant: disconnect() forgets the registered callbacks
Disconnect_ClearsCallbacks ==
  /\ dpsnBroker # 0
  /\ Len(discs) < MaxDiscs
  /\ discs' = Append(discs, [handle |-> dpsnBroker, st |-> "pending",
                             closeArmed |-> TRUE, errorArmed |-> TRUE, endCb |-> TRUE,
                             events |-> {}])
  /\ handles' = [handles EXCEPT ![dpsnBroker].st = EndRequested(@)]
  /\ topicCallbacks' = [t \in SubTopics |-> "none"]
  /\ UNCHANGED <<dpsnBroker, connected, initializing, inits, callers,
                 evConnect, evDisconnect, nReconnects, ops, inbox>>
  /\ UNCHANGED chainVars

\* disconnect() on a client that has a handle
Disconnect ==
  /\ dpsnBroker # 0
  /\ Len(discs) < MaxDiscs
  /\ discs' = Append(discs, [handle |-> dpsnBroker, st |-> "pending",
                             closeArmed |-> TRUE, errorArmed |-> TRUE, endCb |-> TRUE,
                             events |-> {}])
  /\ handles' = [handles EXCEPT ![dpsnBroker].st = EndRequested(@)]
  /\ UNCHANGED <<dpsnBroker, connected, initializing, inits, callers,
                 evConnect, evDisconnect, nReconnects>>
  /\ UNCHANGED psVars
  /\ UNCHANGED chainVars

\* disconnect() on a client that has no handle: it throws before it touches
\* the transport
DisconnectNoHandle ==
  /\ dpsnBroker = 0
  /\ Len(ops) < MaxCalls
  /\ ops' = Append(ops, Reject([NewOp("disconnect", << >>, "none", Undefined, 0, 0)
                                  EXCEPT !.pc = "called"],
                               DpsnError("CLIENT_NOT_INITIALIZED")))
  /\ UNCHANGED <<dpsnBroker, connected, initializing, inits, handles, callers, discs,
                 evConnect, evDisconnect, nReconnects, topicCallbacks, inbox>>
  /\ UNCHANGED chainVars

\* a publish or subscribe call of which only ensureInitialized matters
Call == EnsureInitialized /\ UNCHANGED <<psVars, chainVars>>

\* subscribe(topic, callback) up to its first suspension
Subscribe(topic, cb) ==
  /\ Len(ops) < MaxCalls
  /\ EnsureInitialized
  /\ LET me == callers'[Len(callers')]
     IN ops' = Append(ops, ResumeOp(NewOp("subscribe", topic, cb, Undefined,
                                          me.promise, me.value),
                                    inits', connected', dpsnBroker'))
  /\ UNCHANGED <<topicCallbacks, inbox>>
  /\ UNCHANGED chainVars

\* publish(topic, message) up to its first suspension
Publish(topic, msg) ==
  /\ Len(ops) < MaxCalls
  /\ EnsureInitialized
  /\ LET me == callers'[Len(callers')]
     IN ops' = Append(ops, ResumeOp(NewOp("publish", topic, "none", msg,
                                          me.promise, me.value),
                                    inits', connected', dpsnBroker'))
  /\ UNCHANGED <<topicCallbacks, inbox>>
  /\ UNCHANGED chainVars

\* variant: the request is sent whenever a handle exists
Unsubscribe_NoConnectedCheck(topic) ==
  /\ Len(ops) < MaxCalls
  /\ LET o == [NewOp("unsubscribe", topic, "none", Undefined, 0, 0) EXCEPT !.pc = "called"]
     IN ops' = Append(ops,
          IF dpsnBroker = 0 THEN Reject(o, DpsnError("CLIENT_NOT_INITIALIZED"))
          ELSE [o EXCEPT !.pc = "sent", !.handle = dpsnBroker, !.flag = <<connected>>])
  /\ UNCHANGED <<dpsnBroker, connected, initializing, inits, handles, callers, discs,
                 evConnect, evDisconnect, nReconnects, topicCallbacks, inbox>>
  /\ UNCHANGED chainVars

\* unsubscribe(topic) up to the transport request
Unsubscribe(topic) ==
  /\ Len(ops) < MaxCalls
  /\ LET o == [NewOp("unsubscribe", topic, "none", Undefined, 0, 0) EXCEPT !.pc = "called"]
     IN ops' = Append(ops,
          IF dpsnBroker = 0 THEN Reject(o, DpsnError("CLIENT_NOT_INITIALIZED"))
          ELSE IF ~connected THEN Reject(o, DpsnError("CLIENT_NOT_CONNECTED"))
          ELSE [o EXCEPT !.pc = "sent", !.handle = dpsnBroker, !.flag = <<connected>>])
  /\ UNCHANGED <<dpsnBroker, connected, initializing, inits, handles, callers, discs,
                 evConnect, evDisconnect, nReconnects, topicCallbacks, inbox>>
  /\ UNCHANGED chainVars

\* ------------------------------------------- publish/subscribe continuations
\* the error the subscribe callback rejects the inner promise with
InnerSubscribeError(res) ==
  IF res = "error"
    THEN [class |-> "DPSNError", code |-> "SUBSCRIBE_ERROR", text |-> "Failed to subscribe"]
    ELSE [class |-> "DPSNError", code |-> "SUBSCRIBE_NO_GRANT", text |-> "No subscription granted"]

\* the catch around the inner promise of subscribe()
WrapSetupError(e) ==
  [class |-> "DPSNError", code |-> "SUBSCRIBE_SETUP_ERROR", text |-> e.text]

\* variant: a granted subscribe keeps an earlier registration of the topic
Registered_KeepsFirst(map, topic, cb) ==
  IF map[topic] = "none" THEN [map EXCEPT ![topic] = cb] ELSE map

\* this.topicCallbacks.set(topic, callback)
Registered(map, topic, cb) == [map EXCEPT ![topic] = cb]

\* variant: the callback is stored whatever the transport answered
SubAck_RegistersAlways(c, res, qos) ==
  /\ c \in 1..Len(ops)
  /\ ops[c].op = "subscribe" /\ ops[c].pc = "sent"
  /\ res # "granted" => qos = 0
  /\ IF res = "granted"
       THEN ops' = [ops EXCEPT ![c].pc = "resolved", ![c].ack = <<Answer(res, qos)>>,
                               ![c].events = Append(@, Event("subscribe", ops[c].topic, qos, ""))]
       ELSE ops' = [ops EXCEPT ![c] = Reject([@ EXCEPT !.ack = <<Answer(res, 0)>>],
                                              WrapSetupError(InnerSubscribeError(res)))]
  /\ topicCallbacks' = Registered(topicCallbacks, ops[c].topic, ops[c].cb)
  /\ UNCHANGED <<dpsnBroker, connected, initializing, inits, handles, callers, discs,
                 evConnect, evDisconnect, nReconnects, inbox>>
  /\ UNCHANGED chainVars

\* the transport invokes the callback of a subscribe request, and subscribe()
\* runs to its end
SubAck(c, res, qos) ==
  /\ c \in 1..Len(ops)
  /\ ops[c].op = "subscribe" /\ ops[c].pc = "sent"
  /\ res # "granted" => qos = 0
  /\ IF res = "granted"
       THEN /\ ops' = [ops EXCEPT ![c].pc = "resolved", ![c].ack = <<Answer(res, qos)>>,
                                  ![c].events = Append(@, Event("subscribe", ops[c].topic, qos, ""))]
            /\ topicCallbacks' = Registered(topicCallbacks, ops[c].topic, ops[c].cb)
       ELSE /\ ops' = [ops EXCEPT ![c] = Reject([@ EXCEPT !.ack = <<Answer(res, 0)>>],
                                                 WrapSetupError(InnerSubscribeError(res)))]
            /\ UNCHANGED topicCallbacks
  /\ UNCHANGED <<dpsnBroker, connected, initializing, inits, handles, callers, discs,
                 evConnect, evDisconnect, nReconnects, inbox>>
  /\ UNCHANGED chainVars

\* the transport invokes the callback of an unsubscribe request
UnsubAck(c, err) ==
  /\ c \in 1..Len(ops)
  /\ ops[c].op = "unsubscribe" /\ ops[c].pc = "sent"
  /\ ops' = [ops EXCEPT ![c] =
       IF err THEN Reject([@ EXCEPT !.ack = <<Answer("error", 0)>>], DpsnError("SUBSCRIBE_ERROR"))
              ELSE [@ EXCEPT !.pc = "resolved", !.ack = <<Answer("ok", 0)>>]]
  /\ UNCHANGED <<dpsnBroker, connected, initializing, inits, handles, callers, discs,
                 evConnect, evDisconnect, nReconnects, topicCallbacks, inbox>>
  /\ UNCHANGED chainVars

\* variant: the topic root is read from a buffer the latest call has written
SigningInput_SharedBuffer(c) == ParentTopic(ops[Len(ops)].topic)

\* const parentTopic of invocation c
SigningInput(c) == ParentTopic(ops[c].topic)

\* variant: the whole topic is signed
PublishRequest_SignsTopic(topic, msg, parentTopic) ==
  [topic |-> topic, payload |-> Stringify(msg),
   signatures |-> << Sign(WalletKey, topic) >>]

\* what publish() hands to dpsnBroker.publish: topic, payload and
\* properties.userProperties.signature
PublishRequest(topic, msg, parentTopic) ==
  [topic |-> topic, payload |-> Stringify(msg),
   signatures |-> << Sign(WalletKey, ToBeArray(parentTopic)) >>]

\* variant: the request is refused while the client is not connected
PublishSigned_ChecksConnected(c, ok) ==
  /\ c \in 1..Len(ops)
  /\ ops[c].op = "publish" /\ ops[c].pc = "signing"
  /\ ops' = [ops EXCEPT ![c] =
       IF ~ok THEN Reject(@, PlainError("SignFailed"))
       ELSE IF ~connected THEN Reject(@, DpsnError("CLIENT_NOT_CONNECTED"))
       ELSE [@ EXCEPT !.pc = "sent", !.handle = dpsnBroker, !.flag = <<connected>>,
                      !.sent = << PublishRequest(ops[c].topic, ops[c].msg,
                                                 SigningInput(c)) >>]]
  /\ UNCHANGED <<dpsnBroker, connected, initializing, inits, handles, callers, discs,
                 evConnect, evDisconnect, nReconnects, topicCallbacks, inbox>>
  /\ UNCHANGED chainVars

\* wallet.signMessage(ethers.toBeArray(parentTopic)) settles in publish();
\* on success the request goes to this.dpsnBroker
PublishSigned(c, ok) ==
  /\ c \in 1..Len(ops)
  /\ ops[c].op = "publish" /\ ops[c].pc = "signing"
  /\ ops' = [ops EXCEPT ![c] =
       IF ok THEN [@ EXCEPT !.pc = "sent", !.handle = dpsnBroker, !.flag = <<connected>>,
                            !.sent = << PublishRequest(ops[c].topic, ops[c].msg,
                                                       SigningInput(c)) >>]
             ELSE Reject(@, PlainError("SignFailed"))]
  /\ UNCHANGED <<dpsnBroker, connected, initializing, inits, handles, callers, discs,
                 evConnect, evDisconnect, nReconnects, topicCallbacks, inbox>>
  /\ UNCHANGED chainVars

\* variant: a failed publish is reported on the error channel only
PublishFailed_NoReject(o) ==
  [o EXCEPT !.events = Append(@, Event("error", o.topic, 0, "PUBLISH_ERROR"))]

\* the error branch of the publish callback
PublishFailed(o) ==
  Reject([o EXCEPT !.events = Append(@, Event("error", o.topic, 0, "PUBLISH_ERROR"))],
         DpsnError("PUBLISH_ERROR"))

\* the transport invokes the callback of a publish request
PubAck(c, err, mid) ==
  /\ c \in 1..Len(ops)
  /\ ops[c].op = "publish" /\ ops[c].pc = "sent"
  /\ err => mid = 0
  /\ ops' = [ops EXCEPT ![c] =
       IF err THEN PublishFailed([@ EXCEPT !.ack = <<Answer("error", 0)>>])
              ELSE [@ EXCEPT !.pc = "resolved", !.ack = <<Answer("ok", mid)>>,
                             !.events = Append(@, Event("publish_success", ops[c].topic,
                                                        mid, ""))]]
  /\ UNCHANGED <<dpsnBroker, connected, initializing, inits, handles, callers, discs,
                 evConnect, evDisconnect, nReconnects, topicCallbacks, inbox>>
  /\ UNCHANGED chainVars

RECURSIVE Repeat(_, _)
Repeat(x, n) == IF n = 0 THEN << >> ELSE <<x>> \o Repeat(x, n - 1)

\* the callbacks run for one message on topic when the handle carries reg
\* message handlers
InvokedBy(map, reg, topic) ==
  IF map[topic] = "none" THEN << >> ELSE Repeat(map[topic], reg)

\* handle h emits 'message': every message handler an init() attached to it
\* parses the payload, runs the callback stored for the topic and re-emits
OnMessage(h, topic, body) ==
  /\ h \in 1..Len(handles)
  /\ handles[h].st = "up"
  /\ Len(inbox) < MaxMessages
  /\ inbox' = Append(inbox,
       [handle |-> h, topic |-> topic, body |-> body, data |-> ParsePayload(body),
        calls |-> InvokedBy(topicCallbacks, handles[h].reg, topic),
        emits |-> handles[h].reg])
  /\ UNCHANGED <<dpsnBroker, connected, initializing, inits, handles, callers, discs,
                 evConnect, evDisconnect, nReconnects, topicCallbacks, ops>>
  /\ UNCHANGED chainVars

\* the transport reads the answer to subscribe request c and a message on
\* the same topic from one chunk of input: the subscribe callback emits
\* 'subscribe' and resolves the inner promise, the message handlers run, and
\* only then does the continuation of subscribe()'s await store the callback
SubAckThenMessage(c, qos, body) ==
  /\ c \in 1..Len(ops)
  /\ ops[c].op = "subscribe" /\ ops[c].pc = "sent"
  /\ handles[ops[c].handle].st = "up"
  /\ Len(inbox) < MaxMessages
  /\ ops' = [ops EXCEPT ![c].pc = "resolved", ![c].ack = <<Answer("granted", qos)>>,
                        ![c].events = Append(@, Event("subscribe", ops[c].topic, qos, ""))]
  /\ inbox' = Append(inbox,
       [handle |-> ops[c].handle, topic |-> ops[c].topic, body |-> body,
        data |-> ParsePayload(body),
        calls |-> InvokedBy(topicCallbacks, handles[ops[c].handle].reg, ops[c].topic),
        emits |-> handles[ops[c].handle].reg])
  /\ topicCallbacks' = Registered(topicCallbacks, ops[c].topic, ops[c].cb)
  /\ UNCHANGED <<dpsnBroker, connected, initializing, inits, handles, callers, discs,
                 evConnect, evDisconnect, nReconnects>>
  /\ UNCHANGED chainVars

\* ------------------------------------------------------- init() internals
\* first attemptConnect(0) or a retry: mqtt.connect returns a fresh handle,
\* which is stored in this.dpsnBroker, and the connect timer is armed
StartAttempt(i, r) ==
  /\ Len(handles) < MaxHandles
  /\ handles' = Append(handles, NewHandle(i))
  /\ dpsnBroker' = Len(handles) + 1
  /\ inits' = [inits EXCEPT ![i] = [r EXCEPT !.pc = "connecting"]]

\* wallet.signMessage('testing') settles
SignDone(i, ok) ==
  /\ i \in 1..Len(inits)
  /\ inits[i].pc = "signing"
  /\ IF ok
       THEN StartAttempt(i, inits[i])
       ELSE /\ inits' = [inits EXCEPT ![i].pc = "failed", ![i].code = "CONNECTION_ERROR"]
            /\ UNCHANGED <<handles, dpsnBroker>>
  /\ UNCHANGED <<connected, initializing, callers, discs,
                 evConnect, evDisconnect, nReconnects>>
  /\ Continue

\* the backoff timer of attemptConnect's catch fires
RetryFire(i) ==
  /\ i \in 1..Len(inits)
  /\ inits[i].pc = "backoff"
  /\ StartAttempt(i, [inits[i] EXCEPT !.retryCount = @ + 1])
  /\ UNCHANGED <<connected, initializing, callers, discs,
                 evConnect, evDisconnect, nReconnects>>
  /\ UNCHANGED psVars
  /\ UNCHANGED chainVars

\* disconnect() invocations whose once('close') / once('error') listener is
\* still attached to handle h
CloseArmed(h) == {d \in 1..Len(discs) : discs[d].handle = h /\ discs[d].closeArmed}
ErrorArmed(h) == {d \in 1..Len(discs) : discs[d].handle = h /\ discs[d].errorArmed}

\* variant: a later settlement replaces an earlier one
Settle_Overwrites(d, outcome) == [d EXCEPT !.st = outcome]

\* settle a disconnect() promise; settling a settled promise has no effect
Settle(d, outcome) == IF d.st = "pending" THEN [d EXCEPT !.st = outcome] ELSE d

\* this.emit('error', dpsnError) of disconnect(), with code DISCONNECT_ERROR
DisconnectFailed(d) ==
  [d EXCEPT !.events = @ \cup {Event("error", << >>, 0, "DISCONNECT_ERROR")}]

\* the handle the connectionTimeout callback of the attempt on h force-ends
TimeoutTarget(h) == dpsnBroker

\* the connectionTimeout timer of the attempt on handle h fires: end(true)
\* destroys the target's stream, which reports 'close' at once, and the
\* attempt is rejected
ConnectTimeout(h) ==
  /\ h \in 1..Len(handles)
  /\ AttemptPending(h)
  /\ LET t == TimeoutTarget(h)
         closes == handles[t].st # "ended"
         fired == IF closes THEN CloseArmed(t) ELSE {}
     IN /\ handles' = [handles EXCEPT ![h].attempt = "timedout", ![t].st = "ended"]
        /\ connected' = IF closes /\ (handles[t].reg > 0 \/ fired # {})
                          THEN FALSE ELSE connected
        /\ evDisconnect' = evDisconnect + Cardinality(fired)
        /\ discs' = [d \in 1..Len(discs) |->
                       IF d \in fired
                         THEN Settle([discs[d] EXCEPT !.closeArmed = FALSE], "resolved")
                         ELSE discs[d]]
  /\ inits' = RejectAttempt(h)
  /\ UNCHANGED <<dpsnBroker, initializing, callers, evConnect, nReconnects>>
  /\ Continue

\* ------------------------------------------------------- transport events
\* handle h emits 'connect': the listener attemptConnect attached runs, and
\* if it resolves a pending attempt, init() goes on to attach its listeners
\* to this.dpsnBroker and returns this.dpsnBroker
OnConnect(h) ==
  /\ h \in 1..Len(handles)
  /\ handles[h].st \in {"open", "down"}
  /\ IF AttemptPending(h)
       THEN UNCHANGED nReconnects
       ELSE nReconnects < MaxReconnects /\ nReconnects' = nReconnects + 1
  /\ connected' = TRUE
  /\ evConnect' = evConnect + 1
  /\ IF AttemptPending(h)
       THEN /\ inits' = [inits EXCEPT ![handles[h].owner].pc = "done",
                                      ![handles[h].owner].value = dpsnBroker]
            /\ handles' = [handles EXCEPT ![h].st = "up", ![h].attempt = "resolved",
                                          ![dpsnBroker].reg = @ + 1]
       ELSE /\ handles' = [handles EXCEPT ![h].st = "up"]
            /\ UNCHANGED inits
  /\ UNCHANGED <<dpsnBroker, initializing, callers, discs, evDisconnect>>
  /\ Continue

\* handle h emits 'error': attemptConnect's listener, then the listeners
\* init() attached, then disconnect()'s once listeners
OnError(h) ==
  /\ h \in 1..Len(handles)
  /\ handles[h].st \in {"open", "up", "down", "ending"}
  /\ connected' = FALSE
  /\ handles' = [handles EXCEPT ![h].attempt = IF @ = "pending" THEN "rejected" ELSE @]
  /\ inits' = RejectAttempt(h)
  /\ discs' = [d \in 1..Len(discs) |->
                 IF d \in ErrorArmed(h)
                   THEN Settle(DisconnectFailed([discs[d] EXCEPT !.errorArmed = FALSE]),
                               "rejected")
                   ELSE discs[d]]
  /\ UNCHANGED <<dpsnBroker, initializing, callers, evConnect, evDisconnect, nReconnects>>
  /\ Continue

\* transport state of a handle after it reported 'close', 'offline' or
\* 'disconnect'
AfterClose(st) ==
  CASE st = "ending" -> "ended"
    [] st = "up" -> "down"
    [] OTHER -> st

\* handle h emits 'close', 'offline' or 'disconnect': the listeners init()
\* attached clear the flag; 'close' also runs disconnect()'s once listeners
OnClose(h, kind) ==
  /\ h \in 1..Len(handles)
  /\ handles[h].st \in {"open", "up", "down", "ending"}
  /\ handles[h].st = "ending" => kind = "close"
  /\ handles' = [handles EXCEPT ![h].st = AfterClose(@)]
  /\ LET fired == IF kind = "close" THEN CloseArmed(h) ELSE {}
     IN /\ connected' = IF handles[h].reg > 0 \/ fired # {} THEN FALSE ELSE connected
        /\ evDisconnect' = evDisconnect + Cardinality(fired)
        /\ discs' = [d \in 1..Len(discs) |->
                       IF d \in fired
                         THEN Settle([discs[d] EXCEPT !.closeArmed = FALSE], "resolved")
                         ELSE discs[d]]
  /\ UNCHANGED <<dpsnBroker, initializing, inits, callers, evConnect, nReconnects>>
  /\ UNCHANGED psVars
  /\ UNCHANGED chainVars

\* variant: the completion callback of end() resolves the promise
EndCallback_Resolves(d, err) ==
  /\ d \in 1..Len(discs)
  /\ discs[d].endCb
  /\ discs' = [discs EXCEPT ![d] =
       IF err THEN Settle(DisconnectFailed([@ EXCEPT !.endCb = FALSE]), "rejected")
              ELSE Settle([@ EXCEPT !.endCb = FALSE], "resolved")]
  /\ initializing' = 0
  /\ UNCHANGED <<dpsnBroker, connected, inits, handles, callers,
                 evConnect, evDisconnect, nReconnects>>
  /\ UNCHANGED psVars
  /\ UNCHANGED chainVars

\* the transport invokes the completion callback disconnect() passed to end()
EndCallback(d, err) ==
  /\ d \in 1..Len(discs)
  /\ discs[d].endCb
  /\ discs' = [discs EXCEPT ![d] =
       IF err THEN Settle(DisconnectFailed([@ EXCEPT !.endCb = FALSE]), "rejected")
              ELSE [@ EXCEPT !.endCb = FALSE]]
  /\ initializing' = 0
  /\ UNCHANGED <<dpsnBroker, connected, inits, handles, callers,
                 evConnect, evDisconnect, nReconnects>>
  /\ UNCHANGED psVars
  /\ UNCHANGED chainVars

\* -------------------------------------------------------- blockchain pieces
\* message texts the program builds or inspects, as sequences of characters
\* 'Blockchain configuration not initialized. Please call setBlockchainConfig first.'
TxtConfig ==
  <<"B", "l", "o", "c", "k", "c", "h", "a", "i", "n", " ", "c", "o", "n",
    "f", "i", "g", "u", "r", "a", "t", "i", "o", "n", " ", "n", "o", "t",
    " ", "i", "n", "i", "t", "i", "a", "l", "i", "z", "e", "d", ".", " ",
    "P", "l", "e", "a", "s", "e", " ", "c", "a", "l", "l", " ", "s", "e",
    "t", "B", "l", "o", "c", "k", "c", "h", "a", "i", "n", "C", "o", "n",
    "f", "i", "g", " ", "f", "i", "r", "s", "t", ".">>

\* 'Provider not initialized. Please call setBlockchainConfig first.'
TxtProvider ==
  <<"P", "r", "o", "v", "i", "d", "e", "r", " ", "n", "o", "t", " ", "i",
    "n", "i", "t", "i", "a", "l", "i", "z", "e", "d", ".", " ", "P", "l",
    "e", "a", "s", "e", " ", "c", "a", "l", "l", " ", "s", "e", "t", "B",
    "l", "o", "c", "k", "c", "h", "a", "i", "n", "C", "o", "n", "f", "i",
    "g", " ", "f", "i", "r", "s", "t", ".">>

\* 'Failed to fetch owned topics: '
TxtOwnedPrefix ==
  <<"F", "a", "i", "l", "e", "d", " ", "t", "o", " ", "f", "e", "t", "c",
    "h", " ", "o", "w", "n", "e", "d", " ", "t", "o", "p", "i", "c", "s",
    ":", " ">>

\* 'Failed to fetch topic price: '
TxtPricePrefix ==
  <<"F", "a", "i", "l", "e", "d", " ", "t", "o", " ", "f", "e", "t", "c",
    "h", " ", "t", "o", "p", "i", "c", " ", "p", "r", "i", "c", "e", ":",
    " ">>

\* 'Failed to register topic: '
TxtRegisterPrefix ==
  <<"F", "a", "i", "l", "e", "d", " ", "t", "o", " ", "r", "e", "g", "i",
    "s", "t", "e", "r", " ", "t", "o", "p", "i", "c", ":", " ">>

\* 'Insufficient balance. Required: '
TxtRequired ==
  <<"I", "n", "s", "u", "f", "f", "i", "c", "i", "e", "n", "t", " ", "b",
    "a", "l", "a", "n", "c", "e", ".", " ", "R", "e", "q", "u", "i", "r",
    "e", "d", ":", " ">>

\* ' ETH, Available: '
TxtAvailable ==
  <<" ", "E", "T", "H", ",", " ", "A", "v", "a", "i", "l", "a", "b", "l",
    "e", ":", " ">>

\* ' ETH'
TxtEth ==
  <<" ", "E", "T", "H">>

\* 'Transaction confirmation timeout after '
TxtWaitTimeout ==
  <<"T", "r", "a", "n", "s", "a", "c", "t", "i", "o", "n", " ", "c", "o",
    "n", "f", "i", "r", "m", "a", "t", "i", "o", "n", " ", "t", "i", "m",
    "e", "o", "u", "t", " ", "a", "f", "t", "e", "r", " ">>

\* 'ms'
TxtMs ==
  <<"m", "s">>

\* 'Failed to create contract interface: '
TxtContractPrefix ==
  <<"F", "a", "i", "l", "e", "d", " ", "t", "o", " ", "c", "r", "e", "a",
    "t", "e", " ", "c", "o", "n", "t", "r", "a", "c", "t", " ", "i", "n",
    "t", "e", "r", "f", "a", "c", "e", ":", " ">>

\* 'timeout'
TxtTimeout ==
  <<"t", "i", "m", "e", "o", "u", "t">>

\* 'bad response'
TxtBadResponse ==
  <<"b", "a", "d", " ", "r", "e", "s", "p", "o", "n", "s", "e">>

\* 'request timeout'
TxtRequestTimeout ==
  <<"r", "e", "q", "u", "e", "s", "t", " ", "t", "i", "m", "e", "o", "u",
    "t">>

\* messages of the errors a provider, contract or wallet call may fail with
RpcMessages == {TxtBadResponse, TxtRequestTimeout}

\* amounts in wei: the topic price and the balances the chain may report
Prices == {2}
Balances == {1, 2}

\* names passed to purchaseTopic
TopicNames == {TopicA}

\* tx.hash of a submitted transaction, as a number (0xaa, 0xbb)
TxHashes == {170, 187}

\* what receipt.confirmations() may report
ConfirmationCounts == {1, 2}

\* milliseconds a pending provider, contract or wallet call may take
Latencies == {120000}

\* variant: one confirmation is asked for
PurchaseWaitOptions_OneConfirmation ==
  [confirmations |-> 1, timeout |-> 120000, pollingInterval |-> 5000]

\* the options purchaseTopic passes to waitForTransactionConfirmation
PurchaseWaitOptions ==
  [confirmations |-> 2, timeout |-> 120000, pollingInterval |-> 5000]

\* option bundles an application may pass to waitForTransactionConfirmation
WaitOptionChoices ==
  { [confirmations |-> 1, timeout |-> 10000, pollingInterval |-> 5000],
    [confirmations |-> 2, timeout |-> 10000, pollingInterval |-> 10000] }

\* the answer to a provider, contract or wallet call: a value, or an error
\* with a message
Got(v) == [ok |-> TRUE, v |-> v, msg |-> << >>]
Threw(msg) == [ok |-> FALSE, v |-> 0, msg |-> msg]

\* new DPSNError({code: BLOCKCHAIN_CONFIG_ERROR, message})
ConfigError(text) ==
  [class |-> "DPSNError", code |-> "BLOCKCHAIN_CONFIG_ERROR", text |-> text]

\* new Error(`${prefix}${error.message}`) of the catch blocks
Failed(prefix, e) == PlainError(prefix \o e.text)

\* message.includes(sub)
Includes(s, sub) ==
  \E i \in 1..(Len(s) - Len(sub) + 1) : SubSeq(s, i, i + Len(sub) - 1) = sub

\* the decimal digits of a non-negative integer
RECURSIVE Digits(_)
Digits(n) ==
  LET d == <<"0", "1", "2", "3", "4", "5", "6", "7", "8", "9">>[(n % 10) + 1]
  IN IF n < 10 THEN <<d>> ELSE Digits(n \div 10) \o <<d>>

RECURSIVE StripTrailingZeros(_)
StripTrailingZeros(d) ==
  IF d # << >> /\ d[Len(d)] = "0"
    THEN StripTrailingZeros(SubSeq(d, 1, Len(d) - 1))
    ELSE d

\* ethers.formatEther(wei): the amount with 18 decimals, trailing zeros of
\* the fraction dropped but one digit kept
FormatEther(wei) ==
  LET d == Digits(wei)
      p == IF Len(d) < 19 THEN [k \in 1..(19 - Len(d)) |-> "0"] \o d ELSE d
      frac == StripTrailingZeros(SubSeq(p, Len(p) - 17, Len(p)))
  IN SubSeq(p, 1, Len(p) - 18) \o <<".">> \o (IF frac = << >> THEN <<"0">> ELSE frac)

\* the Error checkBalance throws
InsufficientBalance(price, balance) ==
  PlainError(TxtRequired \o FormatEther(price) \o TxtAvailable
             \o FormatEther(balance) \o TxtEth)

\* ethers.keccak256(ethers.toUtf8Bytes(seed)): the digest is kept symbolic,
\* two digests being equal exactly when their seeds are
Keccak256(seed) == [keccak |-> seed]

\* generateTopicHash(topicName) run when Date.now() is t
GenerateTopicHash(t, topicName) ==
  Keccak256(Digits(t \div 1000) \o <<"_">> \o topicName)

\* ethers.getBytes(hash)
GetBytes(hash) == [bytes |-> hash]

\* a getTopicPrice/fetchOwnedTopics/purchaseTopic invocation; trace lists
\* the calls it has made, in order, balance the balance read, submitted the
\* arguments handed to registerTopic, wait the id of its
\* waitForTransactionConfirmation call and cause the error its catch caught
NewChainOp(op, name) ==
  [op |-> op, name |-> name, pc |-> "start", price |-> 0, balance |-> << >>,
   topicHash |-> << >>,
   signature |-> << >>, submitted |-> << >>, tx |-> << >>, wait |-> 0,
   trace |-> << >>, result |-> << >>, cause |-> << >>, err |-> << >>]

\* a waitForTransactionConfirmation invocation made at time t; owner is the
\* purchaseTopic invocation awaiting it (0: called by the application),
\* seen the latest answer of the provider
NewWait(owner, txHash, o, t) ==
  [owner |-> owner, txHash |-> txHash, confirmations |-> o.confirmations,
   timeout |-> o.timeout, pollingInterval |-> o.pollingInterval,
   startTime |-> t, pc |-> "start", due |-> 0, seen |-> << >>,
   result |-> << >>, err |-> << >>, endTime |-> 0]

\* await new Promise(resolve => setTimeout(resolve, pollingInterval))
Sleep(w, t) == [w EXCEPT !.pc = "sleeping", !.due = t + w.pollingInterval]

\* variant: every error ends the wait
Caught_RethrowsAll(w, e, t) ==
  [w EXCEPT !.pc = "thrown", !.err = <<e>>, !.endTime = t]

\* the inner catch of the polling loop, entered with error e at time t: an
\* error whose message includes 'timeout' is rethrown, and the outer catch
\* rethrows it to the caller; any other error is logged and the loop sleeps
Caught(w, e, t) ==
  IF Includes(e.text, TxtTimeout)
    THEN [w EXCEPT !.pc = "thrown", !.err = <<e>>, !.endTime = t]
    ELSE Sleep(w, t)

\* new Error(`Transaction confirmation timeout after ${timeout}ms`)
TimeoutError(w) == PlainError(TxtWaitTimeout \o Digits(w.timeout) \o TxtMs)

\* the top of the polling loop at time t: the elapsed-time check, then the
\* receipt fetch
Iterate(w, t) ==
  IF t - w.startTime > w.timeout
    THEN Caught(w, TimeoutError(w), t)
    ELSE [w EXCEPT !.pc = "fetching"]

\* variant: the catch of purchaseTopic rethrows what it caught
RegistrationFailed_Rethrows(o, e) == Reject([o EXCEPT !.cause = <<e>>], e)

\* the catch of purchaseTopic, entered with the error e thrown in its try
\* block
RegistrationFailed(o, e) ==
  Reject([o EXCEPT !.cause = <<e>>], Failed(TxtRegisterPrefix, e))

\* the continuation of `await waitForTransactionConfirmation(...)` in
\* purchaseTopic invocation o when the waits are W: the return statement,
\* or the catch
AfterWait(o, W) ==
  IF o.pc # "waiting" THEN o
  ELSE CASE W[o.wait].pc = "returned" ->
              [o EXCEPT !.pc = "resolved",
                        !.result = <<[receipt |-> W[o.wait].result[1],
                                      topicHash |-> o.topicHash[1]]>>]
         [] W[o.wait].pc = "thrown" ->
              RegistrationFailed(o, W[o.wait].err[1])
         [] OTHER -> o

\* the purchaseTopic invocations go on once this step has settled their wait
Settled(q, W) == [k \in 1..Len(q) |-> AfterWait(q[k], W)]

\* some provider, contract or wallet call is pending
RpcPending ==
  \/ \E w \in 1..Len(waits) : waits[w].pc \in {"fetching", "confirming"}
  \/ \E k \in 1..Len(chainOps) :
       chainOps[k].pc \in {"price", "topics", "balance", "signing", "address", "submitting"}

\* ------------------------------------------------------- blockchain calls
\* setProvider(rpcUrl)
SetProvider ==
  /\ provider' = TRUE
  /\ UNCHANGED <<contract, now, chainOps, waits>>
  /\ UNCHANGED <<lifeVars, psVars>>

\* variant: the contract is made without looking for a provider
SetContractAddress_NoProviderCheck(created) ==
  /\ Len(chainOps) < MaxChainOps
  /\ LET o == NewChainOp("setContractAddress", << >>)
     IN chainOps' = Append(chainOps,
          IF ~created THEN Reject(o, Failed(TxtContractPrefix, PlainError(TxtBadResponse)))
          ELSE [o EXCEPT !.pc = "resolved"])
  /\ contract' = (contract \/ created)
  /\ UNCHANGED <<provider, now, waits>>
  /\ UNCHANGED <<lifeVars, psVars>>

\* setContractAddress(contractAddress): it throws when there is no provider
\* or when new ethers.Contract throws (created is FALSE), else it stores the
\* contract
SetContractAddress(created) ==
  /\ Len(chainOps) < MaxChainOps
  /\ LET o == NewChainOp("setContractAddress", << >>)
     IN chainOps' = Append(chainOps,
          IF ~provider THEN Reject(o, PlainError(TxtProvider))
          ELSE IF ~created THEN Reject(o, Failed(TxtContractPrefix, PlainError(TxtBadResponse)))
          ELSE [o EXCEPT !.pc = "resolved"])
  /\ contract' = (contract \/ (provider /\ created))
  /\ UNCHANGED <<provider, now, waits>>
  /\ UNCHANGED <<lifeVars, psVars>>

\* setBlockchainConfig(rpcUrl, contractAddress), an argument being TRUE
\* when it is given: setProvider makes the provider, then
\* setContractAddress makes the contract, or throws when there is no
\* provider
SetBlockchainConfig(rpcUrl, contractAddress) ==
  /\ provider' = (provider \/ rpcUrl)
  /\ contract' = (contract \/ (contractAddress /\ provider'))
  /\ UNCHANGED <<now, chainOps, waits>>
  /\ UNCHANGED <<lifeVars, psVars>>

\* getTopicPrice() up to its await: the configuration check of its try
\* block with its catch, or the contract call
PriceCall(o, con) ==
  IF ~con THEN Reject(o, Failed(TxtPricePrefix, ConfigError(TxtConfig)))
  ELSE [o EXCEPT !.pc = "price", !.trace = Append(@, "contract.getTopicPrice")]

\* how getTopicPrice() ends once the contract call has answered with res
PriceResult(res) ==
  IF res.ok THEN Got(res.v) ELSE Threw(TxtPricePrefix \o res.msg)

\* getTopicPrice() called by the application
GetTopicPrice ==
  /\ Len(chainOps) < MaxChainOps
  /\ chainOps' = Append(chainOps, PriceCall(NewChainOp("getTopicPrice", << >>), contract))
  /\ UNCHANGED <<provider, contract, now, waits>>
  /\ UNCHANGED <<lifeVars, psVars>>

\* fetchOwnedTopics() called by the application, up to its await
FetchOwnedTopics ==
  /\ Len(chainOps) < MaxChainOps
  /\ chainOps' = Append(chainOps,
       LET o == NewChainOp("fetchOwnedTopics", << >>)
       IN IF ~contract
            THEN Reject(o, Failed(TxtOwnedPrefix, ConfigError(TxtConfig)))
            ELSE [o EXCEPT !.pc = "topics", !.trace = <<"contract.getUserTopics">>])
  /\ UNCHANGED <<provider, contract, now, waits>>
  /\ UNCHANGED <<lifeVars, psVars>>

\* purchaseTopic(topicName) called by the application, up to the await
\* inside getTopicPrice
PurchaseTopic(topicName) ==
  /\ Len(chainOps) < MaxChainOps
  /\ chainOps' = Append(chainOps,
       LET o == NewChainOp("purchaseTopic", topicName)
           p == PriceCall(o, contract)
       IN IF ~contract THEN RegistrationFailed(o, ConfigError(TxtConfig))
          ELSE IF ~provider THEN RegistrationFailed(o, ConfigError(TxtProvider))
          ELSE IF p.pc = "rejected" THEN RegistrationFailed(o, p.err[1])
          ELSE p)
  /\ UNCHANGED <<provider, contract, now, waits>>
  /\ UNCHANGED <<lifeVars, psVars>>

\* waitForTransactionConfirmation(provider, txHash, o) called by the
\* application, up to its first await
CallWait(txHash, o) ==
  /\ Len(waits) < MaxWaits
  /\ waits' = Append(waits, Iterate(NewWait(0, txHash, o, now), now))
  /\ UNCHANGED <<provider, contract, now, chainOps>>
  /\ UNCHANGED <<lifeVars, psVars>>

\* ------------------------------------------------- blockchain continuations
\* contract.getTopicPrice() answers: getTopicPrice() ends, and purchaseTopic
\* goes on to checkBalance, up to the await of provider.getBalance
PriceAnswer(k, res) ==
  /\ k \in 1..Len(chainOps)
  /\ chainOps[k].pc = "price"
  /\ LET o == chainOps[k]
         r == PriceResult(res)
     IN chainOps' = [chainOps EXCEPT ![k] =
          IF o.op = "getTopicPrice"
            THEN IF r.ok THEN [o EXCEPT !.pc = "resolved", !.result = <<r.v>>]
                         ELSE Reject(o, PlainError(r.msg))
            ELSE IF r.ok
                   THEN [o EXCEPT !.price = r.v, !.pc = "balance",
                                  !.trace = Append(@, "provider.getBalance")]
                   ELSE RegistrationFailed(o, PlainError(r.msg))]
  /\ UNCHANGED <<provider, contract, now, waits>>
  /\ UNCHANGED <<lifeVars, psVars>>

\* contract.getUserTopics(walletAddress) answers
TopicsAnswer(k, res) ==
  /\ k \in 1..Len(chainOps)
  /\ chainOps[k].pc = "topics"
  /\ chainOps' = [chainOps EXCEPT ![k] =
       IF res.ok THEN [chainOps[k] EXCEPT !.pc = "resolved", !.result = <<res.v>>]
                 ELSE Reject(chainOps[k], Failed(TxtOwnedPrefix, PlainError(res.msg)))]
  /\ UNCHANGED <<provider, contract, now, waits>>
  /\ UNCHANGED <<lifeVars, psVars>>

\* variant: the balance is fetched but not compared with the price
CheckBalance_NoGate(price, res) ==
  IF ~res.ok THEN Threw(res.msg) ELSE Got(0)

\* how checkBalance(price) ends once provider.getBalance has answered
CheckBalance(price, res) ==
  IF ~res.ok THEN Threw(res.msg)
  ELSE IF res.v < price THEN Threw(InsufficientBalance(price, res.v).text)
  ELSE Got(0)

\* provider.getBalance(walletAddress) answers: checkBalance ends, and
\* purchaseTopic generates the topic hash and goes on up to the await of
\* wallet.signMessage
BalanceAnswer(k, res) ==
  /\ k \in 1..Len(chainOps)
  /\ chainOps[k].pc = "balance"
  /\ LET o == IF res.ok THEN [chainOps[k] EXCEPT !.balance = <<res.v>>] ELSE chainOps[k]
         r == CheckBalance(o.price, res)
     IN chainOps' = [chainOps EXCEPT ![k] =
          IF r.ok
            THEN [o EXCEPT !.topicHash = <<GenerateTopicHash(now, o.name)>>,
                           !.pc = "signing",
                           !.trace = @ \o <<"generateTopicHash", "wallet.signMessage">>]
            ELSE RegistrationFailed(o, PlainError(r.msg))]
  /\ UNCHANGED <<provider, contract, now, waits>>
  /\ UNCHANGED <<lifeVars, psVars>>

\* wallet.signMessage(ethers.getBytes(topicHash)) settles: purchaseTopic
\* goes on up to the await of contract.getAddress
SignAnswer(k, res) ==
  /\ k \in 1..Len(chainOps)
  /\ chainOps[k].pc = "signing"
  /\ LET o == chainOps[k]
     IN chainOps' = [chainOps EXCEPT ![k] =
          IF res.ok
            THEN [o EXCEPT !.signature = <<Sign(WalletKey, GetBytes(o.topicHash[1]))>>,
                           !.pc = "address",
                           !.trace = Append(@, "contract.getAddress")]
            ELSE RegistrationFailed(o, PlainError(res.msg))]
  /\ UNCHANGED <<provider, contract, now, waits>>
  /\ UNCHANGED <<lifeVars, psVars>>

\* the arguments of contractSigner.registerTopic(topicName, topicHash,
\* signature, {value: price})
RegisterRequest(o) ==
  [topicName |-> o.name, topicHash |-> o.topicHash[1],
   signature |-> o.signature[1], value |-> o.price]

\* contract.getAddress() settles: purchaseTopic submits the transaction
AddressAnswer(k, res) ==
  /\ k \in 1..Len(chainOps)
  /\ chainOps[k].pc = "address"
  /\ LET o == chainOps[k]
     IN chainOps' = [chainOps EXCEPT ![k] =
          IF res.ok
            THEN [o EXCEPT !.submitted = <<RegisterRequest(o)>>,
                           !.pc = "submitting",
                           !.trace = Append(@, "contract.registerTopic")]
            ELSE RegistrationFailed(o, PlainError(res.msg))]
  /\ UNCHANGED <<provider, contract, now, waits>>
  /\ UNCHANGED <<lifeVars, psVars>>

\* registerTopic answers with the transaction, or fails: purchaseTopic calls
\* waitForTransactionConfirmation with tx.hash
SubmitAnswer(k, res) ==
  /\ k \in 1..Len(chainOps)
  /\ chainOps[k].pc = "submitting"
  /\ LET o == chainOps[k]
     IN IF res.ok
          THEN /\ Len(waits) < MaxWaits
               /\ waits' = Append(waits,
                    Iterate(NewWait(k, res.v, PurchaseWaitOptions, now), now))
               /\ chainOps' = Settled(
                    [chainOps EXCEPT ![k] =
                       [o EXCEPT !.tx = <<res.v>>, !.pc = "waiting",
                                 !.wait = Len(waits) + 1,
                                 !.trace = Append(@, "waitForTransactionConfirmation")]],
                    waits')
          ELSE /\ chainOps' = [chainOps EXCEPT ![k] =
                                 RegistrationFailed(o, PlainError(res.msg))]
               /\ UNCHANGED waits
  /\ UNCHANGED <<provider, contract, now>>
  /\ UNCHANGED <<lifeVars, psVars>>

\* provider.getTransactionReceipt(txHash) answers: null (v = 0), the
\* receipt (v = 1), or an error
ReceiptAnswer(w, res) ==
  /\ w \in 1..Len(waits)
  /\ waits[w].pc = "fetching"
  /\ waits' = [waits EXCEPT ![w] =
       LET s == [waits[w] EXCEPT !.seen = <<res>>]
       IN IF ~res.ok THEN Caught(s, PlainError(res.msg), now)
          ELSE IF res.v = 0 THEN Sleep(s, now)
          ELSE [s EXCEPT !.pc = "confirming"]]
  /\ chainOps' = Settled(chainOps, waits')
  /\ UNCHANGED <<provider, contract, now>>
  /\ UNCHANGED <<lifeVars, psVars>>

\* variant: a receipt is returned as soon as there is one
Confirmed_AnyReceipt(w, n, t) ==
  [w EXCEPT !.pc = "returned", !.result = <<[receipt |-> w.txHash]>>,
            !.endTime = t]

\* the loop body once receipt.confirmations() has reported n at time t
Confirmed(w, n, t) ==
  IF n < w.confirmations THEN Sleep(w, t)
  ELSE [w EXCEPT !.pc = "returned", !.result = <<[receipt |-> w.txHash]>>,
                 !.endTime = t]

\* receipt.confirmations() answers
ConfirmationsAnswer(w, res) ==
  /\ w \in 1..Len(waits)
  /\ waits[w].pc = "confirming"
  /\ waits' = [waits EXCEPT ![w] =
       IF ~res.ok THEN Caught([waits[w] EXCEPT !.seen = <<res>>], PlainError(res.msg), now)
       ELSE Confirmed([waits[w] EXCEPT !.seen = <<res>>], res.v, now)]
  /\ chainOps' = Settled(chainOps, waits')
  /\ UNCHANGED <<provider, contract, now>>
  /\ UNCHANGED <<lifeVars, psVars>>

\* the timer of a sleeping wait fires when it is due, and the loop goes
\* round
TimerFire(w) ==
  /\ w \in 1..Len(waits)
  /\ waits[w].pc = "sleeping"
  /\ waits[w].due <= MaxTime
  /\ \A v \in 1..Len(waits) : waits[v].pc = "sleeping" => waits[w].due <= waits[v].due
  /\ now' = waits[w].due
  /\ waits' = [waits EXCEPT ![w] = Iterate(@, now')]
  /\ chainOps' = Settled(chainOps, waits')
  /\ UNCHANGED <<provider, contract>>
  /\ UNCHANGED <<lifeVars, psVars>>

\* d milliseconds pass while a provider, contract or wallet call is
\* pending and no timer is due earlier
Elapse(d) ==
  /\ RpcPending
  /\ now + d <= MaxTime
  /\ \A v \in 1..Len(waits) : waits[v].pc = "sleeping" => now + d <= waits[v].due
  /\ now' = now + d
  /\ UNCHANGED <<provider, contract, chainOps, waits>>
  /\ UNCHANGED <<lifeVars, psVars>>

\* ----------------------------------------------------------- specifications
\* what the transport and the timers of the event loop may do
Environment ==
  \/ \E i \in 1..MaxInits, ok \in BOOLEAN : SignDone(i, ok)
  \/ \E i \in 1..MaxInits : RetryFire(i)
  \/ \E h \in 1..Len(handles) : ConnectTimeout(h)
  \/ \E h \in 1..Len(handles) : OnConnect(h)
  \/ \E h \in 1..Len(handles) : OnError(h)
  \/ \E h \in 1..Len(handles), kind \in {"close", "offline", "disconnect"} : OnClose(h, kind)

\* Spec: an application that calls publish/subscribe and init({maxRetries: 0})
\* in any order and at any time
Next ==
  \/ CallInit(NoRetryOptions)
  \/ Call
  \/ Environment

Spec == Init /\ [][Next]_vars

\* SpecRetry: an application that calls init(options) once, with any of the
\* option bundles
NextRetry ==
  \/ \E o \in RetryOptionChoices : Len(inits) = 0 /\ CallInit(o)
  \/ Environment

SpecRetry == Init /\ [][NextRetry]_vars

\* SpecDisconnect: an application that calls publish/subscribe and
\* disconnect() in any order and at any time
NextDisconnect ==
  \/ Call
  \/ Disconnect
  \/ \E d \in 1..MaxDiscs, err \in BOOLEAN : EndCallback(d, err)
  \/ Environment

SpecDisconnect == Init /\ [][NextDisconnect]_vars

\* SpecLazy: an application that only calls publish/subscribe
NextLazy ==
  \/ Call
  \/ Environment

SpecLazy == Init /\ [][NextLazy]_vars

\* SpecEnd: an application that awaits each init before calling init again
\* (the first with no retry or one retry, the later ones with no retry), and
\* calls disconnect() at any time
NextEnd ==
  \/ /\ \A i \in 1..Len(inits) : inits[i].pc \in {"done", "failed"}
     /\ \E o \in IF Len(inits) = 0 THEN {NoRetryOptions, OneRetryOptions}
                                   ELSE {NoRetryOptions} : CallInit(o)
  \/ Disconnect
  \/ \E d \in 1..MaxDiscs, err \in BOOLEAN : EndCallback(d, err)
  \/ Environment

SpecEnd == Init /\ [][NextEnd]_vars

\* a transport on which only the handle held in this.dpsnBroker reports
\* errors and connection loss, and a handle connects only in answer to the
\* attempt made on it
QuietTransport ==
  \/ \E i \in 1..MaxInits, ok \in BOOLEAN : SignDone(i, ok)
  \/ \E i \in 1..MaxInits : RetryFire(i)
  \/ \E h \in 1..Len(handles) : ConnectTimeout(h)
  \/ \E h \in 1..Len(handles) : AttemptPending(h) /\ OnConnect(h)
  \/ \E h \in 1..Len(handles) : h = dpsnBroker /\ OnError(h)
  \/ \E h \in 1..Len(handles), kind \in {"close", "offline", "disconnect"} :
       h = dpsnBroker /\ OnClose(h, kind)

\* the (topic, callback) pairs an application subscribes with
Subscriptions == {<<TopicA, "CA">>, <<TopicA, "CB">>, <<TopicB, "CB">>}

\* SpecSub: an application that only calls subscribe, on a quiet transport
NextSub ==
  \/ \E s \in Subscriptions : Subscribe(s[1], s[2])
  \/ \E c \in 1..MaxCalls, res \in {"error", "nogrant", "granted"}, q \in GrantedQoS :
       SubAck(c, res, q)
  \/ QuietTransport

SpecSub == Init /\ [][NextSub]_vars

\* SpecUnsub: an application that calls subscribe and unsubscribe in any
\* order and at any time, on a quiet transport that delivers messages
NextUnsub ==
  \/ \E s \in Subscriptions : Subscribe(s[1], s[2])
  \/ \E t \in SubTopics : Unsubscribe(t)
  \/ \E c \in 1..MaxCalls, res \in {"error", "nogrant", "granted"}, q \in GrantedQoS :
       SubAck(c, res, q)
  \/ \E c \in 1..MaxCalls, err \in BOOLEAN : UnsubAck(c, err)
  \/ \E t \in SubTopics, b \in Bodies : OnMessage(dpsnBroker, t, b)
  \/ QuietTransport

SpecUnsub == Init /\ [][NextUnsub]_vars

\* SpecDispatch: an application that may call init({maxRetries: 0}) first
\* and then, at any time, subscribe("A", CA) and subscribe("B", CB), on a
\* quiet transport that grants every subscription and delivers messages
NextDispatch ==
  \/ Len(inits) = 0 /\ CallInit(NoRetryOptions)
  \/ \E s \in {<<TopicA, "CA">>, <<TopicB, "CB">>} : Subscribe(s[1], s[2])
  \/ \E c \in 1..MaxCalls : SubAck(c, "granted", 1)
  \/ \E t \in SubTopics, b \in Bodies : OnMessage(dpsnBroker, t, b)
  \/ QuietTransport

SpecDispatch == Init /\ [][NextDispatch]_vars

\* the (topic, message) pairs an application publishes
Publications == {<<Topic0xab, ObjK1>>, <<Topic0x0cd, StrHello>>, <<TopicZz, ObjK1>>}

\* SpecPub: an application that only calls publish, on a quiet transport
NextPub ==
  \/ \E p \in Publications : Publish(p[1], p[2])
  \/ \E c \in 1..MaxCalls, ok \in BOOLEAN : PublishSigned(c, ok)
  \/ \E c \in 1..MaxCalls, err \in BOOLEAN, mid \in MessageIds : PubAck(c, err, mid)
  \/ QuietTransport

SpecPub == Init /\ [][NextPub]_vars

\* the answers a contract, provider or wallet call of purchaseTopic,
\* getTopicPrice or fetchOwnedTopics may get
NoTopics == 0
Failures == {Threw(TxtBadResponse)}

\* SpecChain: an application that configures the chain side and calls
\* getTopicPrice and fetchOwnedTopics in any order and at any time, and
\* purchaseTopic once
NextChain ==
  \/ \E r \in BOOLEAN, a \in BOOLEAN : SetBlockchainConfig(r, a)
  \/ GetTopicPrice
  \/ FetchOwnedTopics
  \/ \E n \in TopicNames :
       (\A k \in 1..Len(chainOps) : chainOps[k].op # "purchaseTopic") /\ PurchaseTopic(n)
  \/ \E k \in 1..MaxChainOps, res \in {Got(p) : p \in Prices} \cup Failures : PriceAnswer(k, res)
  \/ \E k \in 1..MaxChainOps, res \in {Got(NoTopics)} \cup Failures : TopicsAnswer(k, res)
  \/ \E k \in 1..MaxChainOps, res \in {Got(b) : b \in Balances} \cup Failures : BalanceAnswer(k, res)
  \/ \E k \in 1..MaxChainOps, res \in {Got(0)} \cup Failures : SignAnswer(k, res)
  \/ \E k \in 1..MaxChainOps, res \in {Got(0)} \cup Failures : AddressAnswer(k, res)
  \/ \E k \in 1..MaxChainOps, res \in {Got(h) : h \in TxHashes} \cup Failures : SubmitAnswer(k, res)
  \/ \E w \in 1..MaxWaits, res \in {Got(0), Got(1)} \cup {Threw(m) : m \in RpcMessages} :
       ReceiptAnswer(w, res)
  \/ \E w \in 1..MaxWaits, res \in {Got(n) : n \in ConfirmationCounts} \cup Failures :
       ConfirmationsAnswer(w, res)
  \/ \E w \in 1..MaxWaits : TimerFire(w)
  \/ \E d \in Latencies : Elapse(d)

SpecChain == Init /\ [][NextChain]_vars

\* SpecWait: an application that calls waitForTransactionConfirmation once
NextWait ==
  \/ \E h \in TxHashes, o \in WaitOptionChoices : Len(waits) = 0 /\ CallWait(h, o)
  \/ \E w \in 1..MaxWaits, res \in {Got(0), Got(1)} \cup {Threw(m) : m \in RpcMessages} :
       ReceiptAnswer(w, res)
  \/ \E w \in 1..MaxWaits, res \in {Got(n) : n \in ConfirmationCounts} \cup Failures :
       ConfirmationsAnswer(w, res)
  \/ \E w \in 1..MaxWaits : TimerFire(w)
  \/ \E d \in Latencies : Elapse(d)

SpecWait == Init /\ [][NextWait]_vars

\* SpecGuard: an application that calls init once (no retry or one retry)
\* and calls unsubscribe and disconnect at any time, on a quiet transport
NextGuard ==
  \/ \E o \in {NoRetryOptions, OneRetryOptions} : Len(inits) = 0 /\ CallInit(o)
  \/ \E t \in SubTopics : Unsubscribe(t)
  \/ \E c \in 1..MaxCalls, err \in BOOLEAN : UnsubAck(c, err)
  \/ DisconnectNoHandle
  \/ Disconnect
  \/ \E d \in 1..MaxDiscs, err \in BOOLEAN : EndCallback(d, err)
  \/ QuietTransport

SpecGuard == Init /\ [][NextGuard]_vars

\* SpecSettle: SpecGuard on a transport that does answer end(): the
\* completion callback is eventually invoked, and a handle that is ending
\* eventually reports 'close'
TransportAnswersEnd ==
  /\ \A d \in 1..MaxDiscs : WF_vars(\E err \in BOOLEAN : EndCallback(d, err))
  /\ \A h \in 1..MaxHandles :
       WF_vars(h \in 1..Len(handles) /\ handles[h].st = "ending" /\ OnClose(h, "close"))

SpecSettle == Init /\ [][NextGuard]_vars /\ TransportAnswersEnd

\* SpecGrant: an application that only calls subscribe("A", CA) and
\* subscribe("B", CB), on a quiet transport that delivers messages, also
\* together with the answer to a subscribe request
NextGrant ==
  \/ \E s \in {<<TopicA, "CA">>, <<TopicB, "CB">>} : Subscribe(s[1], s[2])
  \/ \E c \in 1..MaxCalls, res \in {"error", "nogrant", "granted"} : SubAck(c, res, 1)
  \/ \E c \in 1..MaxCalls, b \in Bodies : SubAckThenMessage(c, 1, b)
  \/ \E t \in SubTopics, b \in Bodies : OnMessage(dpsnBroker, t, b)
  \/ QuietTransport

SpecGrant == Init /\ [][NextGrant]_vars

\* no call the application made on the facade is waiting for its answer
Idle ==
  /\ \A i \in 1..Len(inits) : inits[i].pc \in {"done", "failed"}
  /\ \A c \in 1..Len(ops) : ops[c].pc \in {"resolved", "rejected"}

\* a transport that acknowledges every handshake and on which only the
\* handle held in this.dpsnBroker closes
ReliableTransport ==
  \/ \E i \in 1..MaxInits : SignDone(i, TRUE)
  \/ \E h \in 1..Len(handles) : AttemptPending(h) /\ OnConnect(h)
  \/ \E h \in 1..Len(handles) : h = dpsnBroker /\ OnClose(h, "close")

\* SpecMap: an application that calls subscribe, unsubscribe and publish in
\* any order, awaiting each call before the next, and calls disconnect() once
\* at any time, on a reliable transport that delivers one message, on its
\* own or together with the answer to a subscribe request; init() runs when
\* a call finds the client not connected
NextMap ==
  \/ \E s \in {<<TopicA, "CA">>, <<TopicB, "CB">>} : Idle /\ Subscribe(s[1], s[2])
  \/ \E c \in 1..MaxCalls, res \in {"error", "nogrant", "granted"} : SubAck(c, res, 0)
  \/ Idle /\ Unsubscribe(TopicA)
  \/ \E c \in 1..MaxCalls, err \in BOOLEAN : UnsubAck(c, err)
  \/ Idle /\ Publish(Topic0xab, ObjK1)
  \/ \E c \in 1..MaxCalls, ok \in BOOLEAN : PublishSigned(c, ok)
  \/ \E c \in 1..MaxCalls, err \in BOOLEAN : PubAck(c, err, 0)
  \/ \E t \in SubTopics : Len(inbox) = 0 /\ OnMessage(dpsnBroker, t, "hello")
  \/ \E c \in 1..MaxCalls : Len(inbox) = 0 /\ SubAckThenMessage(c, 0, "hello")
  \/ Len(discs) = 0 /\ Disconnect
  \/ \E d \in 1..MaxDiscs, err \in BOOLEAN : EndCallback(d, err)
  \/ ReliableTransport

SpecMap == Init /\ [][NextMap]_vars

\* SpecConfig: an application that calls setProvider, setContractAddress
\* and setBlockchainConfig in any order and at any time, and purchaseTopic
\* once
NextConfig ==
  \/ SetProvider
  \/ \E created \in BOOLEAN : SetContractAddress(created)
  \/ \E r \in BOOLEAN, a \in BOOLEAN : SetBlockchainConfig(r, a)
  \/ \E n \in TopicNames :
       (\A k \in 1..Len(chainOps) : chainOps[k].op # "purchaseTopic") /\ PurchaseTopic(n)
  \/ \E k \in 1..MaxChainOps, res \in {Got(p) : p \in Prices} \cup Failures : PriceAnswer(k, res)
  \/ \E k \in 1..MaxChainOps, res \in {Got(b) : b \in Balances} \cup Failures : BalanceAnswer(k, res)
  \/ \E k \in 1..MaxChainOps, res \in {Got(0)} \cup Failures : SignAnswer(k, res)
  \/ \E k \in 1..MaxChainOps, res \in {Got(0)} \cup Failures : AddressAnswer(k, res)
  \/ \E k \in 1..MaxChainOps, res \in {Got(h) : h \in TxHashes} \cup Failures : SubmitAnswer(k, res)
  \/ \E w \in 1..MaxWaits, res \in {Got(0), Got(1)} \cup {Threw(m) : m \in RpcMessages} :
       ReceiptAnswer(w, res)
  \/ \E w \in 1..MaxWaits, res \in {Got(n) : n \in ConfirmationCounts} \cup Failures :
       ConfirmationsAnswer(w, res)
  \/ \E w \in 1..MaxWaits : TimerFire(w)
  \/ \E d \in Latencies : Elapse(d)

SpecConfig == Init /\ [][NextConfig]_vars

TypeOK ==
  /\ provider \in BOOLEAN
  /\ contract \in BOOLEAN
  /\ contract => provider
  /\ now \in 0..MaxTime
  /\ Len(chainOps) <= MaxChainOps
  /\ \A k \in 1..Len(chainOps) :
       /\ chainOps[k].op \in {"getTopicPrice", "fetchOwnedTopics", "purchaseTopic",
                              "setContractAddress"}
       /\ chainOps[k].pc \in {"price", "topics", "balance", "signing", "address",
                               "submitting", "waiting", "resolved", "rejected"}
       /\ chainOps[k].wait \in 0..Len(waits)
  /\ Len(waits) <= MaxWaits
  /\ \A w \in 1..Len(waits) :
       /\ waits[w].pc \in {"fetching", "confirming", "sleeping", "returned", "thrown"}
       /\ waits[w].startTime <= now
       /\ waits[w].pc = "sleeping" => now <= waits[w].due
  /\ dpsnBroker \in 0..Len(handles)
  /\ connected \in BOOLEAN
  /\ initializing \in 0..Len(inits)
  /\ Len(inits) <= MaxInits
  /\ Len(callers) <= MaxCalls
  /\ Len(discs) <= MaxDiscs
  /\ Len(handles) <= MaxHandles
  /\ nReconnects \in 0..MaxReconnects
  /\ topicCallbacks \in [SubTopics -> Callbacks \cup {"none"}]
  /\ Len(ops) <= MaxCalls
  /\ \A c \in 1..Len(ops) :
       /\ ops[c].op \in {"publish", "subscribe", "unsubscribe", "disconnect"}
       /\ ops[c].topic \in SubTopics \cup PubTopics \cup {<< >>}
       /\ ops[c].msg \in Messages \cup {Undefined}
       /\ ops[c].pc \in {"init", "signing", "sent", "resolved", "rejected"}
       /\ ops[c].op = "disconnect" => ops[c].topic = << >>
       /\ ops[c].handle \in 0..Len(handles)
  /\ Len(inbox) <= MaxMessages

\* ------------------------------------------------------------------ claims
Lazy == {i \in 1..Len(inits) : inits[i].origin = "lazy"}
Waiters == {c \in 1..Len(callers) : callers[c].promise # 0}
InFlight == {i \in 1..Len(inits) : inits[i].pc \notin {"done", "failed"}}
Owned(i) == {h \in 1..Len(handles) : handles[h].owner = i}

\* C1: however many publish/subscribe calls reach ensureInitialized on a
\* client on which disconnect() is never called, they start exactly one
\* initialization between them, every caller that has to wait is handed the
\* promise of that one initialization, and so all of them receive the same
\* handle or the same rejection.
C1_SingleFlight ==
  /\ Cardinality(Lazy) <= 1
  /\ Waiters # {} => Cardinality(Lazy) = 1
  /\ \A c \in Waiters : callers[c].promise \in Lazy /\ callers[c].promise = initializing
  /\ \A c, d \in Waiters : Outcome(c) = Outcome(d)

\* two callers waited for the same initialization and received its handle
C1_Witness ==
  /\ Cardinality(Waiters) >= 2
  /\ \A c \in Waiters : Outcome(c).st = "resolved" /\ Outcome(c).value # 0

\* C2: at most one initialization is in flight at any time, for every
\* interleaving of init(), publish() and subscribe().
C2_AtMostOneInFlight == Cardinality(InFlight) <= 1

\* an initialization that used up its retry budget
Exhausted(i) ==
  /\ inits[i].pc = "failed"
  /\ inits[i].retryCount = inits[i].opts.maxRetries
  /\ Owned(i) # {}

\* C3: once an initialization has failed for good (retry budget exhausted)
\* the memoized future no longer refers to it, so that the next call starts
\* a new initialization.
C3_FailureClearsMemo == initializing # 0 => ~Exhausted(initializing)

\* C4: a publish/subscribe call made after a close, offline or disconnect
\* event on a connected client (handle present, flag false, no initialization
\* in flight) starts a new initialization.
C4_CallAfterCloseReinitializes ==
  [][ ( /\ Len(callers') = Len(callers) + 1
        /\ dpsnBroker # 0 /\ ~connected
        /\ handles[dpsnBroker].st = "down"
        /\ InFlight = {}
        /\ Len(inits) < MaxInits )
      => Len(inits') = Len(inits) + 1 ]_vars

\* C5: a publish/subscribe call made once disconnect() has resolved is never
\* handed the promise of the initialization whose handle that disconnect()
\* closed; it starts a new initialization.
C5_CallAfterDisconnectReinitializes ==
  [][ Len(callers') = Len(callers) + 1
      => LET new == callers'[Len(callers')]
         IN ~ ( /\ new.promise \in 1..Len(inits)
                /\ inits[new.promise].pc = "done"
                /\ \E d \in 1..Len(discs) :
                     /\ discs[d].st = "resolved"
                     /\ discs[d].handle = inits[new.promise].value ) ]_vars

\* C6: a disconnect() promise becomes resolved only in a step in which the
\* handle it ended reports 'close'; no promise is resolved when it is
\* created or by the completion callback of end(); and in the resolving step
\* the connected flag becomes false and a disconnect event is emitted.
C6_ResolvesOnlyOnClose ==
  [][ /\ \A d \in 1..Len(discs) :
           (discs[d].st = "pending" /\ discs'[d].st = "resolved")
           => /\ handles[discs[d].handle].st = "ending"
              /\ handles'[discs[d].handle].st = "ended"
              /\ discs[d].closeArmed /\ ~discs'[d].closeArmed
              /\ ~connected'
              /\ evDisconnect' > evDisconnect
      /\ Len(discs') > Len(discs) => discs'[Len(discs')].st = "pending" ]_vars

\* a disconnect() promise resolved on a client that had been connected
C6_Witness ==
  \E d \in 1..Len(discs) :
    /\ discs[d].st = "resolved"
    /\ handles[discs[d].handle].attempt = "resolved"
    /\ evDisconnect = 1 /\ ~connected

AttemptFailed(h) == handles[h].attempt \in {"rejected", "timedout"}

RECURSIVE SumSeq(_)
SumSeq(q) == IF q = << >> THEN 0 ELSE Head(q) + SumSeq(Tail(q))

\* the first two attempts of a default initialization failed and the third
\* is under way or has been acknowledged; no handle connected otherwise
TwoFailures ==
  /\ Len(inits) = 1
  /\ inits[1].opts = DefaultRetryOptions
  /\ Len(handles) = 3
  /\ AttemptFailed(1) /\ AttemptFailed(2)
  /\ nReconnects = 0

RECURSIVE Doubled(_, _)
Doubled(d, k) == IF k = 0 THEN d ELSE Doubled(d + d, k - 1)

C10_TimeoutEndsAttempt ==
  [][ \A h \in 1..Len(handles) :
        (handles[h].attempt = "pending" /\ handles'[h].attempt = "timedout")
        => /\ handles'[h].st = "ended"
           /\ inits'[handles[h].owner].pc \in {"backoff", "failed"} ]_vars

\* subscribe(topic, cb) has resolved
Subscribed(topic, cb) ==
  \E c \in 1..Len(ops) :
    /\ ops[c].op = "subscribe" /\ ops[c].pc = "resolved"
    /\ ops[c].topic = topic /\ ops[c].cb = cb

\* the value a callback is to receive for a payload text: the JSON value,
\* or the text itself when it is not JSON
Payload(body) ==
  CASE body = "{\"k\":1}" -> [type |-> "object", v |-> "k:1"]
    [] body = "\"hello\"" -> [type |-> "string", v |-> "hello"]
    [] body = "hello" -> [type |-> "string", v |-> "hello"]

\* C11: once subscribe("A", CA) and subscribe("B", CB) have resolved, every
\* inbound message on topic "A" runs CA exactly once and CB never, and CA is
\* given the JSON value of the payload, or the text when it is not JSON.
C11_DispatchOnce ==
  [][ ( /\ Len(inbox') = Len(inbox) + 1
        /\ Subscribed(TopicA, "CA") /\ Subscribed(TopicB, "CB") )
      => LET m == inbox'[Len(inbox')]
         IN m.topic = TopicA => m.calls = <<"CA">> /\ m.data = Payload(m.body) ]_vars

\* unsubscribe(topic) has resolved and no subscribe to the topic was called
\* after it
Unsubscribed(topic) ==
  \E c \in 1..Len(ops) :
    /\ ops[c].op = "unsubscribe" /\ ops[c].pc = "resolved" /\ ops[c].topic = topic
    /\ \A d \in (c + 1)..Len(ops) : ~(ops[d].op = "subscribe" /\ ops[d].topic = topic)

\* C12: once unsubscribe("A") has resolved, an inbound message on topic "A"
\* runs no callback.
C12_UnsubscribeStopsDispatch ==
  [][ Len(inbox') = Len(inbox) + 1
      => LET m == inbox'[Len(inbox')]
         IN Unsubscribed(m.topic) => m.calls = << >> ]_vars

\* subscribe invocation c is granted in this step
Granted(c) == ops[c].op = "subscribe" /\ ops[c].pc = "sent" /\ ops'[c].pc = "resolved"

\* C13: the step in which a subscribe is granted stores its callback under
\* its topic, whatever was stored there before, and leaves the other topics
\* alone, so that a message on the topic, on any handle that carries a
\* message handler, runs that callback and no other;
\* the call emits one subscription event, with its topic and the QoS the
\* transport granted, and a subscribe that is not granted emits none and
\* stores nothing.
C13_GrantRegistersAndEmits ==
  [][ /\ \A c \in 1..Len(ops) :
           Granted(c) =>
             /\ topicCallbacks'[ops[c].topic] = ops[c].cb
             /\ \A t \in SubTopics \ {ops[c].topic} : topicCallbacks'[t] = topicCallbacks[t]
             /\ \A h \in 1..Len(handles) :
                  \A k \in DOMAIN InvokedBy(topicCallbacks', handles'[h].reg, ops[c].topic) :
                    InvokedBy(topicCallbacks', handles'[h].reg, ops[c].topic)[k] = ops[c].cb
             /\ \A h \in 1..Len(handles) :
                  handles'[h].reg > 0
                    => InvokedBy(topicCallbacks', handles'[h].reg, ops[c].topic) # << >>
             /\ ops'[c].events
                  = << [name |-> OnChannel("subscription"), topic |-> ops[c].topic,
                        num |-> ops'[c].ack[1].num, code |-> ""] >>
      /\ topicCallbacks' # topicCallbacks => \E c \in 1..Len(ops) : Granted(c)
      /\ \A c \in 1..Len(ops') :
           (ops'[c].op = "subscribe" /\ ops'[c].pc # "resolved") => ops'[c].events = << >> ]_vars

\* subscribe("A", CA) and subscribe("A", CB) were both granted, with
\* different QoS, and CB is the callback stored for "A"
C13_Witness ==
  /\ Len(ops) = 2
  /\ ops[1].topic = TopicA /\ ops[1].cb = "CA" /\ ops[1].pc = "resolved"
  /\ ops[2].topic = TopicA /\ ops[2].cb = "CB" /\ ops[2].pc = "resolved"
  /\ ops[1].ack # ops[2].ack
  /\ topicCallbacks[TopicA] = "CB"

\* subscribe invocations the transport answered with res
Answered(res) ==
  {c \in 1..Len(ops) : ops[c].op = "subscribe" /\ ops[c].ack # << >> /\ ops[c].ack[1].res = res}

\* C14: a subscribe whose request the transport fails is rejected with code
\* SUBSCRIBE_ERROR, and one whose request is answered with no granted entry
\* is rejected with code SUBSCRIBE_NO_GRANT.
C14_SubscribeErrorCodes ==
  /\ \A c \in Answered("error") :
       ops[c].pc = "rejected" /\ ops[c].err[1].code = "SUBSCRIBE_ERROR"
  /\ \A c \in Answered("nogrant") :
       ops[c].pc = "rejected" /\ ops[c].err[1].code = "SUBSCRIBE_NO_GRANT"

\* subscribe invocation c gets past `await this.ensureInitialized()` in
\* this step
Proceeds(c) ==
  /\ ops'[c].op = "subscribe"
  /\ c > Len(ops) \/ ops[c].pc = "init"
  /\ ops'[c].pc # "init"

\* ensureInitialized rejected for invocation c of the next state
InitFailed(c) == ops'[c].promise # 0 /\ inits'[ops'[c].promise].pc = "failed"

\* C15: a subscribe that gets past ensureInitialized sends its request only
\* if the connected flag is true, and then to this.dpsnBroker; if
\* ensureInitialized resolved with a handle present and the flag false it
\* is rejected with CLIENT_NOT_CONNECTED, if ensureInitialized rejected it
\* is rejected with INITIALIZATION_FAILED, and in both cases nothing is sent
\* and no callback is stored, in that step or later.
C15_SubscribeNeedsConnected ==
  [][ /\ \A c \in 1..Len(ops') :
           Proceeds(c) =>
             /\ ops'[c].pc = "sent" =>
                  /\ connected' /\ dpsnBroker' # 0 /\ ~InitFailed(c)
                  /\ ops'[c].handle = dpsnBroker'
             /\ (~InitFailed(c) /\ dpsnBroker' # 0 /\ ~connected') =>
                  /\ ops'[c].pc = "rejected"
                  /\ ops'[c].err[1].code = "CLIENT_NOT_CONNECTED"
             /\ InitFailed(c) =>
                  /\ ops'[c].pc = "rejected"
                  /\ ops'[c].err[1].code = "INITIALIZATION_FAILED"
             /\ ops'[c].pc = "rejected" =>
                  /\ ops'[c].handle = 0 /\ ops'[c].ack = << >>
                  /\ topicCallbacks' = topicCallbacks
      /\ \A c \in 1..Len(ops) :
           (ops[c].op = "subscribe" /\ ops[c].pc = "rejected") => ops'[c] = ops[c] ]_vars

\* a subscribe was granted, the connection was lost, and the next subscribe
\* was rejected as not connected
C15_Witness ==
  /\ Len(ops) = 2
  /\ ops[1].pc = "resolved"
  /\ ops[2].pc = "rejected" /\ ops[2].err[1].code = "CLIENT_NOT_CONNECTED"
  /\ dpsnBroker # 0 /\ ~connected

\* C16: a subscribe whose request the transport fails has, besides being
\* rejected, emitted an event on the error channel.
C16_SubscribeFailureEmitsError ==
  \A c \in Answered("error") :
    /\ ops[c].pc = "rejected"
    /\ \E k \in 1..Len(ops[c].events) : ops[c].events[k].name = OnChannel("error")

\* the transport answers publish invocation c in this step
PublishAnswered(c) ==
  ops[c].op = "publish" /\ ops[c].pc = "sent" /\ ops'[c].ack # << >>

\* C17: when the transport answers a publish request, the call ends in one
\* of two ways: on an error it is rejected with PUBLISH_ERROR and has emitted
\* one error event and nothing else; on success it is resolved and has
\* emitted one publish event, with its topic and the message id the
\* transport reported, and nothing else.  A publish is answered only while
\* its request is pending, and a publish that has ended never changes, nor
\* does a publish emit anything before it is answered.
C17_PublishOutcomes ==
  [][ \A c \in 1..Len(ops) :
        /\ PublishAnswered(c) =>
             IF ops'[c].ack[1].res = "error"
               THEN /\ ops'[c].pc = "rejected"
                    /\ ops'[c].err = << [class |-> "DPSNError", code |-> "PUBLISH_ERROR", text |-> ""] >>
                    /\ Len(ops'[c].events) = 1
                    /\ ops'[c].events[1].name = OnChannel("error")
                    /\ ops'[c].events[1].code = "PUBLISH_ERROR"
               ELSE /\ ops'[c].pc = "resolved"
                    /\ ops'[c].err = << >>
                    /\ ops'[c].events
                         = << [name |-> OnChannel("publish"), topic |-> ops[c].topic,
                               num |-> ops'[c].ack[1].num, code |-> ""] >>
        /\ (ops[c].op = "publish" /\ ops[c].pc \in {"resolved", "rejected"}) => ops'[c] = ops[c]
        /\ (ops[c].op = "publish" /\ ops'[c].ack = << >>) => ops'[c].events = << >> ]_vars

\* one publish was rejected by the broker and another was acknowledged with
\* message id 5
C17_Witness ==
  \E c, d \in 1..Len(ops) :
    /\ ops[c].op = "publish" /\ ops[c].pc = "rejected" /\ ops[c].ack = <<Answer("error", 0)>>
    /\ ops[d].op = "publish" /\ ops[d].pc = "resolved" /\ ops[d].ack = <<Answer("ok", 5)>>

\* publish invocations whose request has been handed to the transport
Published == {c \in 1..Len(ops) : ops[c].op = "publish" /\ ops[c].sent # << >>}

\* the JSON text of a message
JsonText(m) ==
  CASE m = [type |-> "object", v |-> "k:1"] -> "{\"k\":1}"
    [] m = [type |-> "string", v |-> "hello"] -> "\"hello\""

\* the bytes signed for a topic: those of the number its root denotes, most
\* significant byte first
RootBytes(topic) ==
  CASE topic = <<"0", "x", "a", "b", "/", "s">> -> << <<"a", "b">> >>
    [] topic = <<"0", "x", "0", "c", "d">> -> << <<"c", "d">> >>

Publishes == {c \in 1..Len(ops) : ops[c].op = "publish"}
WellFormed == {c \in Publishes : ops[c].topic \in {Topic0xab, Topic0x0cd}}

\* C19: whatever the interleaving of publish calls, the signature sent with
\* a publish is over the root of that call's own topic, and so never over the
\* root of another call's topic when the two roots differ.
C19_OwnTopicSignature ==
  \A c \in Published :
    LET over == ops[c].sent[1].signatures[1].over
    IN /\ over = RootBytes(ops[c].topic)
       /\ \A d \in WellFormed \ {c} :
            ops[d].topic # ops[c].topic => over # RootBytes(ops[d].topic)

\* two publishes on different topics were in flight together and the one
\* called second was signed and sent first
C19_Witness ==
  /\ Len(ops) >= 2
  /\ ops[1].op = "publish" /\ ops[1].topic = Topic0xab /\ ops[1].pc = "signing"
  /\ ops[2].op = "publish" /\ ops[2].topic = Topic0x0cd /\ ops[2].pc = "sent"

Purchases == {k \in 1..Len(chainOps) : chainOps[k].op = "purchaseTopic"}

\* the purchases whose balance read is below the price fetched
Short == {k \in Purchases : chainOps[k].balance # << >> /\ chainOps[k].balance[1] < chainOps[k].price}

\* C21: a purchaseTopic call that read a balance below the fetched price is
\* rejected with the registration failure that carries the insufficient
\* balance message (required and available amounts), and it has made no
\* registerTopic call
C21_BalanceGate ==
  \A k \in Short :
    /\ chainOps[k].pc = "rejected"
    /\ chainOps[k].err = <<Failed(TxtRegisterPrefix,
                                 InsufficientBalance(chainOps[k].price, chainOps[k].balance[1]))>>
    /\ chainOps[k].submitted = << >>
    /\ \A j \in 1..Len(chainOps[k].trace) : chainOps[k].trace[j] # "contract.registerTopic"

\* C21 witness: a purchase was rejected after reading a balance of 1 wei
\* against a price of 2 wei
C21_Witness ==
  \E k \in Short :
    /\ chainOps[k].pc = "rejected"
    /\ chainOps[k].balance = <<1>> /\ chainOps[k].price = 2
    /\ chainOps[k].trace = <<"contract.getTopicPrice", "provider.getBalance">>

\* the steps of purchaseTopic, in the order of the claim
PurchaseSteps ==
  <<"contract.getTopicPrice", "provider.getBalance", "generateTopicHash",
    "wallet.signMessage", "contract.getAddress", "contract.registerTopic",
    "waitForTransactionConfirmation">>

\* C22: the steps a purchaseTopic call has made are always a prefix of:
\* price fetch, balance check, hash generation, signing, (contract address,)
\* submission, confirmation wait; and a call that has returned has made
\* them all, its wait was for the hash of the submitted transaction and
\* returned on a confirmation count of at least 2, and the topicHash it
\* returns is the one it signed and submitted
C22_PurchaseOrder ==
  \A k \in Purchases :
    LET o == chainOps[k]
    IN /\ o.trace = SubSeq(PurchaseSteps, 1, Len(o.trace))
       /\ o.result # << >> => o.pc = "resolved"
       /\ o.pc = "resolved" =>
            /\ o.trace = PurchaseSteps
            /\ waits[o.wait].pc = "returned"
            /\ waits[o.wait].txHash = o.tx[1]
            /\ waits[o.wait].seen[1].ok /\ waits[o.wait].seen[1].v >= 2
            /\ o.result[1].receipt = [receipt |-> o.tx[1]]
            /\ o.result[1].topicHash = o.submitted[1].topicHash
            /\ o.submitted[1].signature = Sign(WalletKey, GetBytes(o.result[1].topicHash))
            /\ o.submitted[1].value = o.price

\* C22 witness: a purchase has returned, a polling interval or more after
\* its wait began
C22_Witness ==
  \E k \in Purchases :
    /\ chainOps[k].pc = "resolved"
    /\ waits[chainOps[k].wait].endTime >= waits[chainOps[k].wait].startTime + 5000

\* the calls made while no contract was configured: they made no contract,
\* provider or wallet call
Unconfigured == {k \in 1..Len(chainOps) : chainOps[k].trace = << >>}

\* C23: getTopicPrice, fetchOwnedTopics and purchaseTopic called before the
\* chain side is configured make no contract or provider call and are
\* rejected with an error of code BLOCKCHAIN_CONFIG_ERROR
C23_ConfigErrorBeforeCalls ==
  \A k \in Unconfigured :
    /\ chainOps[k].pc = "rejected"
    /\ chainOps[k].err[1].class = "DPSNError"
    /\ chainOps[k].err[1].code = "BLOCKCHAIN_CONFIG_ERROR"

\* C24: a purchaseTopic call in which a step failed is rejected with a plain
\* Error whose message is 'Failed to register topic: ' followed by the
\* message of the error that step threw, and it has no result; a call is
\* rejected only when a step failed
C24_FailureIsWrapped ==
  \A k \in Purchases :
    LET o == chainOps[k]
    IN /\ o.pc = "rejected" <=> o.cause # << >>
       /\ o.cause # << >> =>
            /\ o.err = <<PlainError(TxtRegisterPrefix \o o.cause[1].text)>>
            /\ o.result = << >>

\* C24 witness: a purchase was rejected because its confirmation wait timed
\* out after 120000 ms
C24_Witness ==
  \E k \in Purchases :
    /\ chainOps[k].pc = "rejected"
    /\ chainOps[k].trace = PurchaseSteps
    /\ chainOps[k].err[1].text = TxtRegisterPrefix \o TxtWaitTimeout \o Digits(120000) \o TxtMs

\* --------------------------------------------------- confirmation claims
\* the state of wait w before a step ("start" when the step makes the call)
Before(w) == IF w <= Len(waits) THEN waits[w].pc ELSE "start"

\* C25: a wait returns only in the step in which receipt.confirmations()
\* reports at least the requested count, and what it returns is the receipt
\* of its transaction; an absent receipt, or a count below the target, puts
\* the wait to sleep for pollingInterval, and the next poll is made when
\* that sleep is over
C25_ReturnsOnlyConfirmed ==
  [][\A w \in 1..Len(waits') :
       LET b == waits'[w]
       IN /\ (b.pc = "returned" /\ Before(w) # "returned") =>
               /\ Before(w) = "confirming"
               /\ b.seen[1].ok /\ b.seen[1].v >= b.confirmations
               /\ b.result = <<[receipt |-> b.txHash]>>
          /\ (Before(w) = "fetching" /\ b.pc # "fetching" /\ b.seen[1] = Got(0)) =>
               b.pc = "sleeping" /\ b.due = now + b.pollingInterval
          /\ (Before(w) = "confirming" /\ b.pc # "confirming"
                /\ b.seen[1].ok /\ b.seen[1].v < b.confirmations) =>
               b.pc = "sleeping" /\ b.due = now + b.pollingInterval
          /\ (Before(w) = "sleeping" /\ b.pc # "sleeping") => now' = waits[w].due
    ]_vars

\* C25 witness: a wait for 2 confirmations has returned exactly one polling
\* interval after it began
C25_Witness ==
  \E w \in 1..Len(waits) :
    /\ waits[w].pc = "returned"
    /\ waits[w].confirmations = 2
    /\ waits[w].endTime = waits[w].startTime + waits[w].pollingInterval

\* C26: a wait is over, with the timeout error when no receipt reached the
\* target, no later than timeout + pollingInterval after the call began
C26_TimeoutBound ==
  \A w \in 1..Len(waits) :
    /\ waits[w].pc \notin {"returned", "thrown"} =>
         now - waits[w].startTime <= waits[w].timeout + waits[w].pollingInterval
    /\ waits[w].pc = "thrown" =>
         waits[w].endTime - waits[w].startTime <= waits[w].timeout + waits[w].pollingInterval

\* C27: an error of a receipt fetch (or of the confirmation count) whose
\* message does not contain 'timeout' puts the wait to sleep for
\* pollingInterval, after which it polls again; an error whose message
\* contains 'timeout' ends the wait in that step with that error
C27_PollingErrors ==
  [][\A w \in 1..Len(waits) :
       LET b == waits'[w]
       IN (waits[w].pc \in {"fetching", "confirming"} /\ b.pc # waits[w].pc
            /\ ~b.seen[1].ok) =>
            IF Includes(b.seen[1].msg, TxtTimeout)
              THEN b.pc = "thrown" /\ b.err = <<PlainError(b.seen[1].msg)>> /\ b.endTime = now
              ELSE b.pc = "sleeping" /\ b.due = now + b.pollingInterval /\ b.err = << >>
    ]_vars

\* C27 witness: a wait polls again after a fetch that failed with
\* 'bad response'
C27_Witness ==
  \E w \in 1..Len(waits) :
    /\ waits[w].pc = "sleeping"
    /\ waits[w].seen = <<Threw(TxtBadResponse)>>

\* ---------------------------------------------------- connection claims
\* handle h reports 'close', 'offline' or 'disconnect' in this step while
\* it carries the listeners of init()
ClosesInitialized(h) ==
  /\ handles[h].reg > 0
  /\ handles[h].st \in {"up", "ending"}
  /\ handles'[h].st \in {"down", "ended"}

\* C28: whenever the initialized handle reports 'close', 'offline' or
\* 'disconnect', the client emits an event
C28_CloseSurfaced ==
  [][\A h \in 1..Len(handles) :
       ClosesInitialized(h) => (evDisconnect' > evDisconnect \/ evConnect' > evConnect)
    ]_vars

\* C29: the connected flag turns true only in a step that emits 'connect';
\* a 'close', 'offline' or 'disconnect' event of the initialized handle and
\* an 'error' event that fails a connect attempt leave it false; and it is
\* false while an initialization waits for its next retry
C29_ConnectedTransitions ==
  [][/\ (connected' /\ ~connected) => evConnect' = evConnect + 1
     /\ \A h \in 1..Len(handles) :
          /\ ClosesInitialized(h) => ~connected'
          /\ (handles[h].attempt = "pending" /\ handles'[h].attempt = "rejected") => ~connected'
     /\ (\E i \in 1..Len(inits') : inits'[i].pc = "backoff") => ~connected'
    ]_vars

\* C30: a publish or subscribe call made while the client holds a handle
\* and is connected gets that handle at once, and the step changes neither
\* the initializations (nothing is signed), the handles (nothing is
\* connected), this.dpsnBroker, the connected flag nor this.initializing
C30_FastPathNoWork ==
  [][(Len(callers') = Len(callers) + 1 /\ dpsnBroker # 0 /\ connected) =>
       /\ callers'[Len(callers')] = [promise |-> 0, value |-> dpsnBroker]
       /\ UNCHANGED <<inits, handles, dpsnBroker, connected, initializing>>
    ]_vars

\* C30 witness: a call was answered at once with the connected handle of a
\* finished initialization
C30_Witness ==
  \E c \in 1..Len(callers) :
    /\ callers[c].promise = 0
    /\ callers[c].value = dpsnBroker
    /\ connected
    /\ initializing # 0 /\ inits[initializing].pc = "done"

\* the invocation this step starts, if it is an unsubscribe or a disconnect
\* that was refused
Refusable ==
  IF Len(ops') = Len(ops) + 1 /\ ops'[Len(ops')].op \in {"unsubscribe", "disconnect"}
    THEN {Len(ops')} ELSE {}

\* the step hands nothing to the transport and changes no field of the client
Untouched(c) ==
  /\ ops'[c].sent = << >> /\ ops'[c].handle = 0 /\ ops'[c].ack = << >>
  /\ ops'[c].events = << >>
  /\ UNCHANGED <<lifeVars, topicCallbacks, inbox, chainVars>>
  /\ SubSeq(ops', 1, Len(ops)) = ops

\* C31: disconnect and unsubscribe called on a client without a handle
\* reject with CLIENT_NOT_INITIALIZED, hand nothing to the transport and
\* change no client state; unsubscribe on a client with a handle that is not
\* connected rejects with CLIENT_NOT_CONNECTED
C31_GuardsReject ==
  [][\A c \in Refusable :
       /\ dpsnBroker = 0 =>
            /\ ops'[c].pc = "rejected"
            /\ ops'[c].err = <<DpsnError("CLIENT_NOT_INITIALIZED")>>
            /\ Untouched(c)
       /\ (ops'[c].op = "unsubscribe" /\ dpsnBroker # 0 /\ ~connected) =>
            /\ ops'[c].pc = "rejected"
            /\ ops'[c].err = <<DpsnError("CLIENT_NOT_CONNECTED")>>
            /\ Untouched(c)]_vars

\* C31 witness: a disconnect refused for want of a handle, and later an
\* unsubscribe refused on a handle that is still connecting
C31_Witness ==
  /\ dpsnBroker # 0 /\ ~connected
  /\ \E c \in 1..Len(ops) :
       /\ ops[c].op = "disconnect" /\ ops[c].pc = "rejected"
       /\ ops[c].err = <<DpsnError("CLIENT_NOT_INITIALIZED")>>
  /\ \E c \in 1..Len(ops) :
       /\ ops[c].op = "unsubscribe" /\ ops[c].pc = "rejected"
       /\ ops[c].err = <<DpsnError("CLIENT_NOT_CONNECTED")>>

\* the disconnect() invocations that are pending on handle h
PendingOn(h) == {d \in 1..Len(discs) : discs[d].handle = h /\ discs[d].st = "pending"}

\* C32: an 'error' of the handle a pending disconnect() is ending rejects
\* that promise and emits an error event with code DISCONNECT_ERROR, and a
\* rejected disconnect() is never resolved afterwards
C32_ErrorRejectsDisconnect ==
  [][/\ \A h \in 1..Len(handles) : \A d \in PendingOn(h) :
          OnError(h) =>
            /\ discs'[d].st = "rejected"
            /\ discs[d].events = {}
            /\ discs'[d].events = {Event("error", << >>, 0, "DISCONNECT_ERROR")}
     /\ \A d \in 1..Len(discs) :
          discs[d].st = "rejected" => discs'[d].st = "rejected"]_vars

\* C32 witness: a disconnect() rejected by a transport error whose handle
\* has closed since
C32_Witness ==
  \E d \in 1..Len(discs) :
    /\ discs[d].st = "rejected"
    /\ ~discs[d].errorArmed /\ ~discs[d].closeArmed /\ discs[d].endCb
    /\ discs[d].events = {Event("error", << >>, 0, "DISCONNECT_ERROR")}
    /\ handles[discs[d].handle].st = "ended"

\* the message this step dispatches, if any
Dispatched == IF Len(inbox') = Len(inbox) + 1 THEN {inbox'[Len(inbox')]} ELSE {}

\* C33: an inbound message on a topic without an entry in the mapping runs
\* no callback and fails nothing, and every inbound message, registered or
\* not, is emitted exactly once on the general message event
C33_UnregisteredOnlyRebroadcast ==
  [][\A m \in Dispatched :
       /\ topicCallbacks[m.topic] = "none" => m.calls = << >>
       /\ UNCHANGED <<ops, topicCallbacks, lifeVars>>
       /\ m.emits = 1]_vars

\* subscribe invocation c is granted in this step
GrantedNow(c) ==
  /\ c \in 1..Len(ops) /\ ops[c].op = "subscribe"
  /\ ops[c].pc = "sent" /\ ops'[c].pc = "resolved"

\* unsubscribe invocation c is acknowledged in this step
UnsubscribedNow(c) ==
  /\ c \in 1..Len(ops) /\ ops[c].op = "unsubscribe"
  /\ ops[c].pc = "sent" /\ ops'[c].pc = "resolved"

\* C34: the mapping changes only in a step in which a subscribe is granted
\* or an unsubscribe is acknowledged, and then only at that invocation's
\* topic; message dispatch, publish, init, disconnect and a subscribe that
\* ends in an error leave it as it was
C34_MappingFrame ==
  [][\A t \in SubTopics :
       topicCallbacks'[t] # topicCallbacks[t] =>
         \E c \in 1..Len(ops) : ops[c].topic = t /\ (GrantedNow(c) \/ UnsubscribedNow(c))]_vars

\* C34 witness: with CA stored for topic A, a message was dispatched, a
\* subscribe to topic B ended in an error and disconnect() was called, and
\* topic B has no entry
C34_Witness ==
  /\ topicCallbacks[TopicA] = "CA" /\ topicCallbacks[TopicB] = "none"
  /\ Len(inbox) > 0 /\ Len(discs) > 0
  /\ \E c \in 1..Len(ops) :
       ops[c].op = "subscribe" /\ ops[c].topic = TopicB /\ ops[c].pc = "rejected"
         /\ ops[c].ack # << >>

\* C35: whenever the connected flag is true the handle stored in
\* this.dpsnBroker is up, and a 'connect' or 'error' reported by the handle
\* of an attempt that has already failed changes neither the connected flag
\* nor the number of connect events emitted
C35_NoLateEvents ==
  [][/\ connected' => (dpsnBroker' # 0 /\ handles'[dpsnBroker'].st = "up")
     /\ \A h \in 1..Len(handles) :
          (AttemptFailed(h) /\ (OnConnect(h) \/ OnError(h)))
            => (connected' = connected /\ evConnect' = evConnect)]_vars

\* C36: every disconnect() called on a client that has a handle eventually
\* resolves or rejects
C36_DisconnectSettles ==
  \A d \in 1..MaxDiscs :
    (Len(discs) >= d) ~> (Len(discs) >= d /\ discs[d].st # "pending")

\* publish invocation c gets past `await this.ensureInitialized()` in this
\* step
PublishResumes(c) ==
  /\ c \in 1..Len(ops') /\ ops'[c].op = "publish"
  /\ (c > Len(ops) \/ ops[c].pc = "init") /\ ops'[c].pc # "init"
  /\ Awaited(ops'[c], inits') = "resolved"

\* the signing of publish invocation c settles in this step
PublishLeavesSigning(c) ==
  /\ c \in 1..Len(ops) /\ ops[c].op = "publish"
  /\ ops[c].pc = "signing" /\ ops'[c].pc # "signing"

\* C37: publish does not look at the connected flag. Once ensureInitialized
\* has returned, a publish with a handle and a hex topic root goes on to sign,
\* and once signed it is handed to the stored handle whatever the flag is;
\* an unsubscribe called with a handle and the flag false is refused with
\* CLIENT_NOT_CONNECTED
C37_PublishIgnoresFlag ==
  [][/\ \A c \in 1..Len(ops') :
          (PublishResumes(c) /\ dpsnBroker' # 0 /\ IsHexRoot(ParentTopic(ops'[c].topic)))
            => ops'[c].pc = "signing"
     /\ \A c \in 1..Len(ops) :
          PublishLeavesSigning(c) =>
            \/ /\ ops'[c].pc = "sent" /\ ops'[c].handle = dpsnBroker
               /\ ops'[c].flag = <<connected>>
               /\ ops'[c].sent # << >>
            \/ /\ ops'[c].pc = "rejected"
               /\ ops'[c].err = <<PlainError("SignFailed")>>
     /\ \A c \in Refusable :
          (ops'[c].op = "unsubscribe" /\ dpsnBroker # 0 /\ ~connected)
            => ops'[c].err = <<DpsnError("CLIENT_NOT_CONNECTED")>>]_vars

\* C37 witness: a publish was handed to the transport while the flag was
\* false, and the unsubscribe called next, the flag still false, was refused
C37_Witness ==
  /\ ~connected /\ dpsnBroker # 0
  /\ \E c \in 1..Len(ops) :
       /\ ops[c].op = "publish" /\ ops[c].sent # << >> /\ ops[c].flag = <<FALSE>>
       /\ ops[c].handle = dpsnBroker
       /\ \E u \in (c + 1)..Len(ops) :
            /\ ops[u].op = "unsubscribe" /\ ops[u].pc = "rejected"
            /\ ops[u].err = <<DpsnError("CLIENT_NOT_CONNECTED")>>

\* the subscribe requests handed to handle h so far
RequestsOn(h) == {c \in 1..Len(ops) : ops[c].op = "subscribe" /\ ops[c].handle = h}

\* subscribe invocation c hands its request to the transport in this step
RequestsNow(c) ==
  /\ ops'[c].op = "subscribe" /\ ops'[c].pc = "sent"
  /\ c > Len(ops) \/ ops[c].pc # "sent"

\* C38: no step, disconnect() and re-initialization included, removes an
\* entry of the mapping, and a subscribe request goes to the transport only
\* from a subscribe call of the application, in the continuation of its own
\* await, and to the handle stored then: initialization sends none, so a
\* handle made by a re-initialization has no subscription of its own until
\* subscribe is called again
C38_CallbacksOutliveSession ==
  [][/\ \A t \in SubTopics : topicCallbacks[t] # "none" => topicCallbacks'[t] # "none"
     /\ \A c \in 1..Len(ops') :
          RequestsNow(c) =>
            /\ c > Len(ops) \/ ops[c].pc = "init"
            /\ ops'[c].handle = dpsnBroker'
     /\ Len(ops') > Len(ops) =>
          ( Len(callers') > Len(callers)
            \/ ops'[Len(ops')].op \in {"unsubscribe", "disconnect"} )
     /\ Len(handles') > Len(handles) =>
          \A c \in 1..Len(ops') : ops'[c].handle # Len(handles')]_vars

\* C38 witness: CA was registered for topic A through a first handle,
\* disconnect() resolved, and the client is connected again through a new
\* handle that has been handed no subscribe request, the entry still there
C38_Witness ==
  /\ topicCallbacks[TopicA] = "CA"
  /\ \E d \in 1..Len(discs) : discs[d].st = "resolved" /\ discs[d].handle # dpsnBroker
  /\ \E c \in 1..Len(ops) :
       /\ ops[c].op = "subscribe" /\ ops[c].pc = "resolved" /\ ops[c].topic = TopicA
       /\ ops[c].handle # dpsnBroker
  /\ connected /\ dpsnBroker # 0 /\ handles[dpsnBroker].st = "up"
  /\ RequestsOn(dpsnBroker) = {}

\* the subscribe invocations on topic t whose request went to handle h and
\* whose subscription event has been emitted by the end of this step
Announced(t, h) ==
  {c \in 1..Len(ops') : /\ ops'[c].op = "subscribe" /\ ops'[c].topic = t
                        /\ ops'[c].handle = h /\ ops'[c].events # << >>}

\* C39: a message on topic T that a message handler dispatches once the
\* subscription event for T has been emitted runs a callback for T
C39_CallbackSetWhenAnnounced ==
  [][\A m \in Dispatched :
       (m.emits > 0 /\ Announced(m.topic, m.handle) # {}) => m.calls # << >>]_vars

\* the chain-side invocation this step starts, if any
StartedChainOp == IF Len(chainOps') = Len(chainOps) + 1 THEN {Len(chainOps')} ELSE {}

\* C40: after every step a contract exists only if a provider exists;
\* setContractAddress called without a provider throws and leaves the
\* contract unset; and a purchaseTopic that finds a contract never fails its
\* provider check
C40_ContractNeedsProvider ==
  [][/\ contract' => provider'
     /\ \A k \in StartedChainOp :
          /\ (chainOps'[k].op = "setContractAddress" /\ ~provider) =>
               /\ chainOps'[k].pc = "rejected"
               /\ chainOps'[k].err = <<PlainError(TxtProvider)>>
               /\ ~contract'
          /\ (chainOps'[k].op = "purchaseTopic" /\ contract) =>
               /\ provider
               /\ chainOps'[k].cause # <<ConfigError(TxtProvider)>>
               /\ chainOps'[k].pc = "price"]_vars

\* C40 witness: setContractAddress was refused for want of a provider, and a
\* purchaseTopic called once both were set has passed both checks
C40_Witness ==
  /\ contract /\ provider
  /\ \E k \in 1..Len(chainOps) :
       /\ chainOps[k].op = "setContractAddress" /\ chainOps[k].pc = "rejected"
       /\ chainOps[k].err = <<PlainError(TxtProvider)>>
       /\ \E j \in (k + 1)..Len(chainOps) :
            chainOps[j].op = "purchaseTopic" /\ chainOps[j].trace # << >>

====
